---- MODULE Spec2Model ----
(***************************************************************************)
(* Record relocation and cross-reference consistency of the AoE2 campaign  *)
(* transfer tools: tools/dat_implant_units.py, tools/dat_implant_techs.py  *)
(* and the orchestrator mod_sync_to_official.py.                           *)
(*                                                                         *)
(* Encoding of the Python values.                                          *)
(*  - Optional value: <<>> is None, <<x>> is the value x.                  *)
(*  - Object: a TLA+ record; hasattr(o, a) is  a \in DOMAIN o.             *)
(*  - list with blank slots (civ.units, unit_headers): [len, at], where    *)
(*    `at` maps the 0-based indices of the non-blank slots to their        *)
(*    element; an index below len that `at` does not map holds the blank   *)
(*    (None for civ.units, the exists=0 header for unit_headers).          *)
(*  - Unit objects live in `heap`, keyed by object identity; a civ.units   *)
(*    slot holds an identity, so that in-place mutation through one        *)
(*    reference is seen through every alias of it.                         *)
(*  - list with every slot populated (techs, effects): [len, at, fill],    *)
(*    where an index below len that `at` does not map holds a record       *)
(*    equal to `fill`.                                                     *)
(***************************************************************************)
EXTENDS Integers, Sequences, FiniteSets, TLC

VARIABLES source, target, heap, last, ncalls, pc, scenario

vars == <<source, target, heap, last, ncalls, pc, scenario>>

\* No scenario is loaded while the data files are processed.
NoScenario == [triggers |-> <<>>, units |-> <<>>]

None == <<>>
Some(x) == <<x>>

Min(a, b) == IF a < b THEN a ELSE b
Max(a, b) == IF a > b THEN a ELSE b

\* getattr(obj, name, None) for an attribute that holds an object or None
getattr(obj, name) == IF name \in DOMAIN obj THEN obj[name] ELSE None

\* e, with the record st evaluated first: TLC evaluates an operator's argument
\* when it is first used, and a loop that hands its state on unevaluated piles
\* up one pending step per iteration
Now(st, e) == IF DOMAIN st = {} THEN e ELSE e

RECURSIVE SortedSeq(_)
\* the elements of a finite set of integers, ascending
SortedSeq(S) ==
    IF S = {} THEN <<>>
    ELSE LET lo == CHOOSE x \in S : \A y \in S : x <= y
             hi == CHOOSE x \in S : \A y \in S : y <= x
             mid == (lo + hi) \div 2
         IN IF lo = hi THEN <<lo>>
            ELSE SortedSeq({x \in S : x <= mid}) \o SortedSeq({x \in S : x > mid})

RECURSIVE Concat(_)
\* the concatenation of a sequence of sequences
Concat(ss) ==
    IF ss = <<>> THEN <<>>
    ELSE IF Len(ss) = 1 THEN ss[1]
    ELSE Concat(SubSeq(ss, 1, Len(ss) \div 2)) \o Concat(SubSeq(ss, Len(ss) \div 2 + 1, Len(ss)))

(***************************************************************************)
(* Lists with blank slots                                                  *)
(***************************************************************************)
EmptyList == [len |-> 0, at |-> <<>>]

\* lst[i] is not the blank
Occupied(lst, i) == i \in DOMAIN lst.at

\* lst[i] = x, for 0 <= i < len(lst)
SetItem(lst, i, x) == [lst EXCEPT !.at = (i :> x) @@ @]

\* lst[i] = <the blank>, for 0 <= i < len(lst)
SetBlank(lst, i) == [lst EXCEPT !.at = [j \in (DOMAIN @) \ {i} |-> @[j]]]

\* the list cut or padded to exactly `length` slots
_ensure_length_exact(lst, length) ==
    [len |-> length, at |-> [i \in {j \in DOMAIN lst.at : j < length} |-> lst.at[i]]]

\* while len(lst) < length: lst.append(blank_fill)
_ensure_length(lst, length) == IF lst.len < length THEN [lst EXCEPT !.len = length] ELSE lst

\* h is None or h.exists == 0: the blank header is the unmapped slot
_is_blank_header(unit_headers, idx) == ~Occupied(unit_headers, idx)

(***************************************************************************)
(* Unit-ID reference fields of one unit                                    *)
(***************************************************************************)
TopAttrs == <<"copy_id", "base_id", "dead_unit_id", "blood_unit_id">>
BuildingAttrs == <<"stack_unit_id", "head_unit", "transform_unit", "pile_unit">>

Range(s) == {s[k] : k \in DOMAIN s}

\* do(v) following the map again from the value it has just written
do_cascade(v, id_mapping) ==
    IF v \in DOMAIN id_mapping
    THEN [val |-> IF id_mapping[v] \in DOMAIN id_mapping THEN id_mapping[id_mapping[v]]
                  ELSE id_mapping[v],
          c |-> 1]
    ELSE [val |-> v, c |-> 0]

\* the inner function do(v) of _remap_unit_id_refs_in_unit
do(v, id_mapping) ==
    IF v \in DOMAIN id_mapping THEN [val |-> id_mapping[v], c |-> 1]
    ELSE [val |-> v, c |-> 0]

\* for attr in attrs: if hasattr(obj, attr): setattr(obj, attr, do(getattr(obj, attr)))
RemapAttrs(obj, attrs, id_mapping) ==
    [a \in DOMAIN obj |-> IF a \in Range(attrs) THEN do(obj[a], id_mapping).val ELSE obj[a]]

\* the number of attributes RemapAttrs changes
CountAttrs(obj, attrs, id_mapping) ==
    Cardinality({a \in Range(attrs) \cap DOMAIN obj : do(obj[a], id_mapping).c = 1})

\* for e in lst: if e is not None and hasattr(e, "unit_id"): e.unit_id = do(e.unit_id)
RemapEntries(lst, id_mapping) ==
    [k \in DOMAIN lst |->
        IF lst[k] # None /\ "unit_id" \in DOMAIN lst[k][1]
        THEN Some(RemapAttrs(lst[k][1], <<"unit_id">>, id_mapping))
        ELSE lst[k]]

CountEntries(lst, id_mapping) ==
    Cardinality({k \in DOMAIN lst :
        /\ lst[k] # None
        /\ "unit_id" \in DOMAIN lst[k][1]
        /\ do(lst[k][1].unit_id, id_mapping).c = 1})

\* the building part of _remap_unit_id_refs_in_unit
RemapBuilding(b, id_mapping) ==
    LET b1 == RemapAttrs(b, BuildingAttrs, id_mapping)
    IN IF "annexes" \in DOMAIN b1
       THEN [b1 EXCEPT !.annexes = RemapEntries(@, id_mapping)]
       ELSE b1

CountBuilding(b, id_mapping) ==
    CountAttrs(b, BuildingAttrs, id_mapping)
    + (IF "annexes" \in DOMAIN b THEN CountEntries(b.annexes, id_mapping) ELSE 0)

\* the creatable part of _remap_unit_id_refs_in_unit
RemapCreatable(cr, id_mapping) ==
    IF "train_locations" \in DOMAIN cr
    THEN [cr EXCEPT !.train_locations = RemapEntries(@, id_mapping)]
    ELSE cr

CountCreatable(cr, id_mapping) ==
    IF "train_locations" \in DOMAIN cr THEN CountEntries(cr.train_locations, id_mapping) ELSE 0

\* an optional sub-object with one reference attribute (projectile, dead_fish)
RemapSub(unit, sub, attr, id_mapping) ==
    IF getattr(unit, sub) # None
    THEN [unit EXCEPT ![sub] = Some(RemapAttrs(@[1], <<attr>>, id_mapping))]
    ELSE unit

CountSub(unit, sub, attr, id_mapping) ==
    IF getattr(unit, sub) # None THEN CountAttrs(unit[sub][1], <<attr>>, id_mapping) ELSE 0

\* _remap_unit_id_refs_in_unit(unit, id_mapping): the unit after the in-place
\* rewrite and the returned number of rewritten fields
_remap_unit_id_refs_in_unit(unit, id_mapping) ==
    LET u1 == RemapAttrs(unit, TopAttrs, id_mapping)
        u2 == IF getattr(u1, "building") # None
              THEN [u1 EXCEPT !.building = Some(RemapBuilding(@[1], id_mapping))]
              ELSE u1
        u3 == RemapSub(u2, "projectile", "projectile_unit_id", id_mapping)
        u4 == RemapSub(u3, "dead_fish", "tracking_unit", id_mapping)
        u5 == IF getattr(u4, "creatable") # None
              THEN [u4 EXCEPT !.creatable = Some(RemapCreatable(@[1], id_mapping))]
              ELSE u4
        n  == CountAttrs(unit, TopAttrs, id_mapping)
              + (IF getattr(unit, "building") # None
                 THEN CountBuilding(unit.building[1], id_mapping) ELSE 0)
              + CountSub(unit, "projectile", "projectile_unit_id", id_mapping)
              + CountSub(unit, "dead_fish", "tracking_unit", id_mapping)
              + (IF getattr(unit, "creatable") # None
                 THEN CountCreatable(unit.creatable[1], id_mapping) ELSE 0)
    IN [unit |-> u5, n |-> n]

\* [(prefix + attr, getattr(obj, attr)) for attr in attrs if hasattr(obj, attr)]
AttrRefs(obj, attrs, prefix) ==
    LET present == SelectSeq(attrs, LAMBDA a : a \in DOMAIN obj)
    IN [k \in DOMAIN present |-> <<prefix \o present[k], obj[present[k]]>>]

\* [(prefix + "[i].unit_id", e.unit_id) for i, e in enumerate(lst) if e has unit_id]
EntryRefs(lst, prefix) ==
    LET ks == SelectSeq([k \in DOMAIN lst |-> k],
                        LAMBDA k : lst[k] # None /\ "unit_id" \in DOMAIN lst[k][1])
    IN [j \in DOMAIN ks |->
          <<prefix \o "[" \o ToString(ks[j] - 1) \o "].unit_id", lst[ks[j]][1].unit_id>>]

\* a listing that stops after the unit's own attributes
_iter_unit_id_refs_for_check_top_only(unit) == AttrRefs(unit, TopAttrs, "")

\* _iter_unit_id_refs_for_check(unit): the (path, value) list, in the code's order
_iter_unit_id_refs_for_check(unit) ==
    LET building == getattr(unit, "building")
        projectile == getattr(unit, "projectile")
        dead_fish == getattr(unit, "dead_fish")
        creatable == getattr(unit, "creatable")
    IN AttrRefs(unit, TopAttrs, "")
       \o (IF building # None
           THEN AttrRefs(building[1], BuildingAttrs, "building.")
                \o (IF "annexes" \in DOMAIN building[1]
                    THEN EntryRefs(building[1].annexes, "building.annexes") ELSE <<>>)
           ELSE <<>>)
       \o (IF projectile # None
           THEN AttrRefs(projectile[1], <<"projectile_unit_id">>, "projectile.") ELSE <<>>)
       \o (IF dead_fish # None
           THEN AttrRefs(dead_fish[1], <<"tracking_unit">>, "dead_fish.") ELSE <<>>)
       \o (IF creatable # None /\ "train_locations" \in DOMAIN creatable[1]
           THEN EntryRefs(creatable[1].train_locations, "creatable.train_locations")
           ELSE <<>>)

(***************************************************************************)
(* check_unit_id_coherence                                                 *)
(***************************************************************************)
\* the message of an issue
IssueMessage(ui, civ_idx, path, val, expected) ==
    "unit[" \o ToString(ui) \o "] civ " \o ToString(civ_idx) \o " " \o path \o "="
    \o ToString(val) \o expected

IdIssue(ui, civ_idx, vid) ==
    [unit_index |-> ui, civ_index |-> civ_idx, field_path |-> "id", bad_value |-> vid,
     message |-> IssueMessage(ui, civ_idx, ".id", vid, ", expected " \o ToString(ui))]

RefIssue(ui, civ_idx, path, val) ==
    [unit_index |-> ui, civ_index |-> civ_idx, field_path |-> path, bad_value |-> val,
     message |-> IssueMessage(ui, civ_idx, path, val, ", a migrated ID")]

\* the issues of one (civ, slot) taking the id for one more reference field
UnitIssues_id_as_ref(data, h, civ_idx, ui, migrated_old_ids) ==
    LET units == data.civs[civ_idx + 1]
    IN IF ui >= units.len \/ ~Occupied(units, ui) THEN <<>>
       ELSE LET u == h[units.at[ui]]
                refs == AttrRefs(u, <<"id">>, "") \o _iter_unit_id_refs_for_check(u)
                stale == SelectSeq(refs, LAMBDA r : r[2] \in migrated_old_ids)
            IN (IF "id" \in DOMAIN u /\ u.id # ui THEN << IdIssue(ui, civ_idx, u.id) >>
                ELSE <<>>)
               \o [k \in DOMAIN stale |-> RefIssue(ui, civ_idx, stale[k][1], stale[k][2])]

\* the body of the loop over indices, lines 337-348: the issues of one (civ, slot),
\* the id issue first, then one per stale reference
UnitIssues(data, h, civ_idx, ui, migrated_old_ids) ==
    LET units == data.civs[civ_idx + 1]
    IN IF ui >= units.len \/ ~Occupied(units, ui) THEN <<>>
       ELSE LET u == h[units.at[ui]]
                refs == _iter_unit_id_refs_for_check(u)
                stale == SelectSeq(refs, LAMBDA r : r[2] \in migrated_old_ids)
            IN (IF "id" \in DOMAIN u /\ u.id # ui THEN << IdIssue(ui, civ_idx, u.id) >>
                ELSE <<>>)
               \o [k \in DOMAIN stale |-> RefIssue(ui, civ_idx, stale[k][1], stale[k][2])]

\* the issues of the (civ, slot) pairs: civs in order, and in each civ the slots
\* in the order in which set(implanted_indices) iterates, which is the same for
\* every call with the same argument
IssuesOf(data, h, slots, migrated_old_ids) ==
    LET order == SortedSeq(slots)
    IN Concat([c \in DOMAIN data.civs |->
          Concat([k \in DOMAIN order |->
              UnitIssues(data, h, c - 1, order[k], migrated_old_ids)])])

\* a check that looks at every slot of the store
check_unit_id_coherence_everywhere(data, h, implanted_indices, migrated_old_ids) ==
    [issues |-> IssuesOf(data, h, UNION {DOMAIN data.civs[c].at : c \in DOMAIN data.civs},
                         migrated_old_ids),
     heap |-> h]

\* a check that sets the id it finds wrong to the slot index
check_unit_id_coherence_fixing(data, h, implanted_indices, migrated_old_ids) ==
    [issues |-> IssuesOf(data, h, implanted_indices, migrated_old_ids),
     heap |-> [o \in DOMAIN h |->
                 IF \E c \in DOMAIN data.civs, i \in implanted_indices :
                        Occupied(data.civs[c], i) /\ data.civs[c].at[i] = o
                 THEN [h[o] EXCEPT !.id =
                          CHOOSE i \in implanted_indices :
                              \E c \in DOMAIN data.civs :
                                  Occupied(data.civs[c], i) /\ data.civs[c].at[i] = o]
                 ELSE h[o]]]

\* check_unit_id_coherence(data, implanted_indices, migrated_old_ids): the list
\* returned, and the heap afterwards (the function assigns to no object)
check_unit_id_coherence(data, h, implanted_indices, migrated_old_ids) ==
    [issues |-> IssuesOf(data, h, implanted_indices, migrated_old_ids), heap |-> h]

(***************************************************************************)
(* Stores and the heap                                                     *)
(***************************************************************************)
\* the object a civ.units slot holds, or None
ItemOpt(lst, i) == IF Occupied(lst, i) THEN Some(lst.at[i]) ELSE None

\* the identities a store's civ.units lists hold
StoreRefs(data) == UNION {Range(data.civs[c].at) : c \in DOMAIN data.civs}

\* objects no list refers to any more are not part of the program's state
Collect(h, src, tgt) == [o \in (StoreRefs(src) \cup StoreRefs(tgt)) \cap DOMAIN h |-> h[o]]

\* the records of a store, by value
ListView(lst, h) == [len |-> lst.len, at |-> [i \in DOMAIN lst.at |-> h[lst.at[i]]]]
StoreView(data, h) ==
    [unit_headers |-> data.unit_headers,
     civs |-> [c \in DOMAIN data.civs |-> ListView(data.civs[c], h)],
     techs |-> data.techs,
     effects |-> data.effects]

\* the object itself in place of a copy of it
deepcopy_alias(h, ref, fresh) == [heap |-> h, ref |-> ref]

\* one copy per slot, which every civ's list then holds
deepcopy_per_slot(h, ref, fresh) ==
    [heap |-> (<<fresh[1], 0, fresh[3]>> :> h[ref]) @@ h, ref |-> <<fresh[1], 0, fresh[3]>>]

\* copy.deepcopy(h[ref]): a new object, under the identity `fresh`, with equal fields
deepcopy(h, ref, fresh) == [heap |-> (fresh :> h[ref]) @@ h, ref |-> fresh]

\* len(data.civs[0].units) if data.civs else len(data.unit_headers)
UnitCount(data) ==
    IF Len(data.civs) > 0 THEN data.civs[1].len ELSE data.unit_headers.len

(***************************************************************************)
(* implant_units_from_dat                                                  *)
(***************************************************************************)
Raise(msg) == [err |-> Some(msg), implant_count |-> 0]

\* if implant_count <= 0: raise ValueError
CheckedCount(implant_count) ==
    IF implant_count <= 0 THEN Raise("implant count is 0")
    ELSE [err |-> None, implant_count |-> implant_count]

\* the range checks without the check of source_end against the source's length
UnitImplantCount_open_end(n_source, source_start, source_end, count) ==
    IF source_start >= n_source THEN Raise("source_start out of range")
    ELSE IF count # None THEN CheckedCount(Min(count[1], n_source - source_start))
    ELSE IF source_end # None
         THEN IF source_end[1] < source_start THEN Raise("source_end < source_start")
              ELSE CheckedCount(source_end[1] - source_start + 1)
    ELSE CheckedCount(n_source - source_start)

\* the range checks taking count as it is given
UnitImplantCount_unclamped(n_source, source_start, source_end, count) ==
    IF source_start >= n_source THEN Raise("source_start out of range")
    ELSE IF count # None THEN CheckedCount(count[1])
    ELSE IF source_end # None
         THEN IF source_end[1] < source_start THEN Raise("source_end < source_start")
              ELSE IF source_end[1] >= n_source THEN Raise("source_end out of range")
              ELSE CheckedCount(source_end[1] - source_start + 1)
    ELSE CheckedCount(n_source - source_start)

\* the range checks looking at source_end before count
UnitImplantCount_end_first(n_source, source_start, source_end, count) ==
    IF source_start >= n_source THEN Raise("source_start out of range")
    ELSE IF source_end # None
         THEN IF source_end[1] < source_start THEN Raise("source_end < source_start")
              ELSE IF source_end[1] >= n_source THEN Raise("source_end out of range")
              ELSE CheckedCount(source_end[1] - source_start + 1)
    ELSE IF count # None THEN CheckedCount(Min(count[1], n_source - source_start))
    ELSE CheckedCount(n_source - source_start)

\* the range checks of implant_units_from_dat: the error raised, or implant_count
UnitImplantCount(n_source, source_start, source_end, count) ==
    IF source_start >= n_source THEN Raise("source_start out of range")
    ELSE IF count # None THEN CheckedCount(Min(count[1], n_source - source_start))
    ELSE IF source_end # None
         THEN IF source_end[1] < source_start THEN Raise("source_end < source_start")
              ELSE IF source_end[1] >= n_source THEN Raise("source_end out of range")
              ELSE CheckedCount(source_end[1] - source_start + 1)
    ELSE CheckedCount(n_source - source_start)

\* id_mapping = {source_start + j: target_start + j for j in range(implant_count)}
RangeMapping(source_start, target_start, implant_count) ==
    [v \in source_start .. (source_start + implant_count - 1) |-> v - source_start + target_start]

\* the destination slots that hold a non-blank header
OverwrittenIndices_headers(target_data, target_start, implant_count) ==
    {idx \in target_start .. (target_start + implant_count - 1) :
        /\ idx < target_data.unit_headers.len
        /\ ~_is_blank_header(target_data.unit_headers, idx)}

\* step 3: the destination slots that hold a non-blank header or a unit in some civ
OverwrittenIndices(target_data, target_start, implant_count) ==
    {idx \in target_start .. (target_start + implant_count - 1) :
        /\ idx < target_data.unit_headers.len
        /\ \/ ~_is_blank_header(target_data.unit_headers, idx)
           \/ \E c \in DOMAIN target_data.civs :
                 idx < target_data.civs[c].len /\ Occupied(target_data.civs[c], idx)}

\* every target civ reading the source's first civ
SourceRead_first(source_data, c, src_idx, copy_extra_civs_from_first) ==
    IF Len(source_data.civs) > 0 /\ src_idx < source_data.civs[1].len
    THEN Some([list |-> "units", civ |-> 0, idx |-> src_idx])
    ELSE None

\* the element source_data.civs[civ].units[idx] the copy for target civ c is read
\* from (lines 152-155), or None when no list is indexed
SourceRead(source_data, c, src_idx, copy_extra_civs_from_first) ==
    IF c < Len(source_data.civs) /\ src_idx < source_data.civs[c + 1].len
    THEN Some([list |-> "units", civ |-> c, idx |-> src_idx])
    ELSE IF copy_extra_civs_from_first /\ Len(source_data.civs) > 0
            /\ src_idx < source_data.civs[1].len
         THEN Some([list |-> "units", civ |-> 0, idx |-> src_idx])
         ELSE None

\* the unit u of lines 152-155
SourceUnit(source_data, c, src_idx, copy_extra_civs_from_first) ==
    LET rd == SourceRead(source_data, c, src_idx, copy_extra_civs_from_first)
    IN IF rd = None THEN None ELSE ItemOpt(source_data.civs[rd[1].civ + 1], rd[1].idx)

\* the clone keeping the id of the unit it was copied from
SetSelfId_kept(unit, tgt_idx) == unit

\* clone.id = tgt_idx, if the clone has an id
SetSelfId(unit, tgt_idx) == IF "id" \in DOMAIN unit THEN [unit EXCEPT !.id = tgt_idx] ELSE unit

\* lines 152-163: one (slot, civ) iteration of the copy loop;
\* st = [target, heap, written, reads]
PlugUnit(st, source_data, c, src_idx, tgt_idx, id_mapping, copy_extra_civs_from_first) ==
    LET rd == SourceRead(source_data, c, src_idx, copy_extra_civs_from_first)
        u == SourceUnit(source_data, c, src_idx, copy_extra_civs_from_first)
        st1 == [st EXCEPT !.reads = @ \cup Range(rd)]
    IN IF u # None
       THEN LET clone == deepcopy(st.heap, u[1], <<"T", c, tgt_idx>>)
                h1 == [clone.heap EXCEPT ![clone.ref] = SetSelfId(@, tgt_idx)]
                h2 == [h1 EXCEPT ![clone.ref] = _remap_unit_id_refs_in_unit(@, id_mapping).unit]
            IN [st1 EXCEPT !.target.civs[c + 1] = SetItem(@, tgt_idx, clone.ref),
                           !.heap = h2]
       ELSE [st1 EXCEPT !.target.civs[c + 1] = SetBlank(@, tgt_idx)]

\* lines 146-149: the header of one slot
PlugHeader(st, source_data, src_idx, tgt_idx) ==
    LET st1 == [st EXCEPT !.written = @ \cup {tgt_idx}]
    IN IF src_idx < source_data.unit_headers.len
       THEN LET st2 == [st1 EXCEPT !.reads = @ \cup {[list |-> "unit_headers", civ |-> 0,
                                                      idx |-> src_idx]}]
            IN IF Occupied(source_data.unit_headers, src_idx)
               THEN [st2 EXCEPT !.target.unit_headers =
                                    SetItem(@, tgt_idx, source_data.unit_headers.at[src_idx])]
               ELSE [st2 EXCEPT !.target.unit_headers = SetBlank(@, tgt_idx)]
       ELSE [st1 EXCEPT !.target.unit_headers = SetBlank(@, tgt_idx)]

RECURSIVE CivLoop(_, _, _, _, _, _, _)
\* for c in range(n_target_civs), from civ c on
CivLoop(st, source_data, c, src_idx, tgt_idx, id_mapping, copy_extra_civs_from_first) ==
    IF c >= Len(st.target.civs) THEN st
    ELSE Now(st, CivLoop(PlugUnit(st, source_data, c, src_idx, tgt_idx, id_mapping,
                                  copy_extra_civs_from_first),
                         source_data, c + 1, src_idx, tgt_idx, id_mapping,
                         copy_extra_civs_from_first))

RECURSIVE SlotLoop(_, _, _, _, _, _, _, _)
\* for i in range(implant_count): the iterations i .. implant_count - 1, one
\* after the other (the range is halved only to keep the evaluation shallow)
SlotLoop(st, source_data, i, implant_count, source_start, target_start, id_mapping, copy_extra_civs_from_first) ==
    IF i >= implant_count THEN st
    ELSE IF i + 1 = implant_count
    THEN Now(st, CivLoop(PlugHeader(st, source_data, source_start + i, target_start + i),
                         source_data, 0, source_start + i, target_start + i,
                         id_mapping, copy_extra_civs_from_first))
    ELSE LET mid == (i + implant_count) \div 2
             first == SlotLoop(st, source_data, i, mid, source_start, target_start,
                               id_mapping, copy_extra_civs_from_first)
         IN Now(first, SlotLoop(first, source_data, mid, implant_count, source_start,
                                target_start, id_mapping, copy_extra_civs_from_first))

\* steps 1 and 2: unit_headers and every civ.units padded to need_len
ExtendTarget(target_data, need_len) ==
    [target_data EXCEPT
        !.unit_headers = _ensure_length(@, need_len),
        !.civs = [c \in DOMAIN @ |-> _ensure_length(@[c], need_len)]]

\* implant_units_from_dat(source_data, target_data, None, source_start, source_end,
\* count, target_start, warn_overwrite=, copy_extra_civs_from_first=): the error
\* raised or the value returned, the target and the heap afterwards, the
\* overwritten slots, the overwrite notice printed, the target slots assigned
\* and the source elements indexed
implant_units_from_dat(source_data, target_data, h, source_start, source_end, count, target_start, warn_overwrite, copy_extra_civs_from_first) ==
    LET rc == UnitImplantCount(UnitCount(source_data), source_start, source_end, count)
    IN IF rc.err # None
       THEN [err |-> rc.err, ret |-> 0, target |-> target_data, heap |-> h,
             overwritten |-> {}, notice |-> None, written |-> {}, reads |-> {}]
       ELSE LET implant_count == rc.implant_count
                need_len == target_start + implant_count
                extended == ExtendTarget(target_data, need_len)
                overwritten == OverwrittenIndices(extended, target_start, implant_count)
                id_mapping == RangeMapping(source_start, target_start, implant_count)
                st == SlotLoop([target |-> extended, heap |-> h, written |-> {},
                                reads |-> {}], source_data, 0,
                               implant_count, source_start, target_start, id_mapping,
                               copy_extra_civs_from_first)
            IN [err |-> None, ret |-> implant_count, target |-> st.target, heap |-> st.heap,
                overwritten |-> overwritten,
                notice |-> IF overwritten # {} /\ warn_overwrite
                           THEN Some(SortedSeq(overwritten)) ELSE None,
                written |-> st.written, reads |-> st.reads]

(***************************************************************************)
(* implant_techs_from_dat                                                  *)
(***************************************************************************)
\* lst[i] of a list with every slot populated
ItemAt(lst, i) == IF i \in DOMAIN lst.at THEN lst.at[i] ELSE lst.fill

\* the position lst[j] names: a negative index counts from the end of the list
\* (and names no position when it is below -len(lst))
ListIndex(lst, j) == IF j < 0 THEN j + lst.len ELSE j

\* _ensure_length(lst, length, placeholder) of dat_implant_techs.py: copies of
\* placeholder are appended until the list has `length` elements
_ensure_length_placeholder(lst, length, placeholder) ==
    IF lst.len >= length THEN lst
    ELSE [lst EXCEPT !.len = length,
                     !.at = IF placeholder = lst.fill THEN @
                            ELSE [i \in lst.len .. (length - 1) |-> placeholder] @@ @]

\* the range checks of implant_techs_from_dat: the error raised, or implant_count
TechImplantCount(n_source_techs, source_start, source_end, count) ==
    IF source_start >= n_source_techs THEN Raise("source_start out of range")
    ELSE IF count # None THEN CheckedCount(Min(count[1], n_source_techs - source_start))
    ELSE IF source_end # None
         THEN IF source_end[1] < source_start THEN Raise("source_end < source_start")
              ELSE IF source_end[1] >= n_source_techs THEN Raise("source_end out of range")
              ELSE CheckedCount(source_end[1] - source_start + 1)
    ELSE CheckedCount(n_source_techs - source_start)

\* the offsets i of the range whose tech has an effect_id outside the source's effects
BadEffectIds(source_data, source_start, implant_count) ==
    {i \in 0 .. (implant_count - 1) :
        LET eid == ItemAt(source_data.techs, source_start + i).effect_id
        IN eid < 0 \/ eid >= source_data.effects.len}

SetMax(S) == CHOOSE x \in S : \A y \in S : y <= x

\* the copy of a source tech with the effect_id of the source
PlugTech_same_effect(tech, source_start, source_tech_end, tech_offset) ==
    [tech EXCEPT !.required_techs =
                     [k \in DOMAIN @ |-> IF source_start <= @[k] /\ @[k] <= source_tech_end
                                         THEN @[k] + tech_offset ELSE @[k]]]

\* the copy of a source tech with every required tech from source_start on moved
PlugTech_open_range(tech, source_start, source_tech_end, tech_offset) ==
    [tech EXCEPT !.effect_id = @ + tech_offset,
                 !.required_techs =
                     [k \in DOMAIN @ |-> IF source_start <= @[k]
                                         THEN @[k] + tech_offset ELSE @[k]]]

\* lines 151-159: the copy of a source tech, its effect_id and those of its
\* required_techs that are in [source_start, source_tech_end] moved by tech_offset
PlugTech(tech, source_start, source_tech_end, tech_offset) ==
    [tech EXCEPT !.effect_id = @ + tech_offset,
                 !.required_techs =
                     [k \in DOMAIN @ |-> IF source_start <= @[k] /\ @[k] <= source_tech_end
                                         THEN @[k] + tech_offset ELSE @[k]]]

\* a raise after the tech list was padded for the first destination slot
TechRaise_padded(target_data, e) ==
    [err |-> e, ret |-> 0,
     target |-> [target_data EXCEPT !.techs = [@ EXCEPT !.len = @ + 1]],
     overwritten_effects |-> <<>>, overwritten_techs |-> <<>>,
     notice |-> FALSE, written |-> {}, written_effects |-> {}, reads |-> {}]

\* raise ValueError(e) of lines 69-100: nothing is returned, and the target
\* is as the call found it, no statement before the raise assigns to it
TechRaise(target_data, e) ==
    [err |-> e, ret |-> 0, target |-> target_data,
     overwritten_effects |-> <<>>, overwritten_techs |-> <<>>,
     notice |-> FALSE, written |-> {}, written_effects |-> {}, reads |-> {}]

\* implant_techs_from_dat(source_data, target_data, None, source_start, source_end,
\* count, target_tech_start, warn_overwrite=): the error raised or the value
\* returned, the target afterwards, the overwritten slots with their former
\* names, whether the overwrite notice is printed, the tech and effect slots
\* assigned and the source elements indexed. target_tech_start is an ID, that
\* is, not negative; eid + tech_offset is negative when the offset is, and the
\* list then takes it as the index of lines 125-145 counts from its end.
implant_techs_from_dat(source_data, target_data, source_start, source_end, count, target_tech_start, warn_overwrite) ==
    LET rc == TechImplantCount(source_data.techs.len, source_start, source_end, count)
        failed(e) == TechRaise(target_data, e)
    IN IF rc.err # None THEN failed(rc.err)
       ELSE IF BadEffectIds(source_data, source_start, rc.implant_count) # {}
       THEN failed(Some("effect_id out of range"))
       ELSE LET implant_count == rc.implant_count
                tech_offset == target_tech_start - source_start
                source_tech_end == source_start + implant_count - 1
                effect_ids_to_implant ==
                    {ItemAt(source_data.techs, source_start + i).effect_id :
                        i \in 0 .. (implant_count - 1)}
                need_effect_len == SetMax({eid + tech_offset : eid \in effect_ids_to_implant}) + 1
                need_tech_len == target_tech_start + implant_count
                effects1 == _ensure_length_placeholder(target_data.effects, need_effect_len,
                                                       ItemAt(target_data.effects, 0))
                techs1 == _ensure_length_placeholder(target_data.techs, need_tech_len,
                                                     ItemAt(target_data.techs, 0))
                effect_idxs == {eid + tech_offset : eid \in effect_ids_to_implant}
                effect_slots == {ListIndex(effects1, j) : j \in effect_idxs}
                tech_slots == target_tech_start .. (target_tech_start + implant_count - 1)
                overwritten_effects ==
                    [j \in effect_idxs |-> ItemAt(effects1, ListIndex(effects1, j)).name]
                overwritten_techs ==
                    [i \in 1 .. implant_count |->
                        <<target_tech_start + i - 1,
                          ItemAt(techs1, target_tech_start + i - 1).name>>]
                effects2 == [effects1 EXCEPT !.at =
                                [p \in effect_slots |->
                                    ItemAt(source_data.effects,
                                           SetMax({j \in effect_idxs : ListIndex(effects1, j) = p})
                                           - tech_offset)]
                                @@ @]
                techs2 == [techs1 EXCEPT !.at =
                              [j \in tech_slots |->
                                  PlugTech(ItemAt(source_data.techs, j - tech_offset),
                                           source_start, source_tech_end, tech_offset)] @@ @]
            IN IF \E p \in effect_slots : p < 0
               THEN [TechRaise(target_data, Some("list index out of range"))
                        EXCEPT !.target = [target_data EXCEPT !.techs = techs1,
                                                              !.effects = effects1]]
               ELSE
               [err |-> None, ret |-> implant_count,
                target |-> [target_data EXCEPT !.techs = techs2, !.effects = effects2],
                overwritten_effects |-> overwritten_effects,
                overwritten_techs |-> overwritten_techs,
                notice |-> warn_overwrite,
                written |-> tech_slots, written_effects |-> effect_slots,
                reads |-> {[list |-> "techs", idx |-> source_start + i] :
                              i \in 0 .. (implant_count - 1)}
                          \cup {[list |-> "effects", idx |-> eid] : eid \in effect_ids_to_implant}]

(***************************************************************************)
(* The passes after the implants                                           *)
(***************************************************************************)
RECURSIVE FixIds(_, _, _)
\* the inner loop of fix_implanted_unit_self_ids over the slots `order` of one civ;
\* st = [heap, n]
FixIds(st, units, order) ==
    IF order = <<>> THEN st
    ELSE IF Len(order) = 1
    THEN LET i == Head(order)
             hit == /\ i < units.len
                    /\ Occupied(units, i)
                    /\ "id" \in DOMAIN st.heap[units.at[i]]
                    /\ st.heap[units.at[i]].id # i
         IN Now(st, IF hit THEN [heap |-> [st.heap EXCEPT ![units.at[i]].id = i],
                                 n |-> st.n + 1]
                    ELSE st)
    ELSE LET mid == Len(order) \div 2
             first == FixIds(st, units, SubSeq(order, 1, mid))
         IN Now(first, FixIds(first, units, SubSeq(order, mid + 1, Len(order))))

RECURSIVE FixCivs(_, _, _, _)
FixCivs(st, target_data, c, order) ==
    IF c > Len(target_data.civs) THEN st
    ELSE Now(st, FixCivs(FixIds(st, target_data.civs[c], order), target_data, c + 1, order))

\* fix_implanted_unit_self_ids(target_data, unit_indices) -> [heap, n]
fix_implanted_unit_self_ids(target_data, h, unit_indices) ==
    FixCivs([heap |-> h, n |-> 0], target_data, 1, SortedSeq(unit_indices))

RECURSIVE RemapUnits(_, _, _, _)
\* for u in civ.units: if u is not None: total += _remap_unit_id_refs_in_unit(u, id_mapping)
RemapUnits(st, units, order, id_mapping) ==
    IF order = <<>> THEN st
    ELSE IF Len(order) = 1
    THEN LET ref == units.at[Head(order)]
             r == _remap_unit_id_refs_in_unit(st.heap[ref], id_mapping)
         IN Now(st, [heap |-> [st.heap EXCEPT ![ref] = r.unit], n |-> st.n + r.n])
    ELSE LET mid == Len(order) \div 2
             first == RemapUnits(st, units, SubSeq(order, 1, mid), id_mapping)
         IN Now(first, RemapUnits(first, units, SubSeq(order, mid + 1, Len(order)), id_mapping))

RECURSIVE RemapCivs(_, _, _, _)
RemapCivs(st, target_data, c, id_mapping) ==
    IF c > Len(target_data.civs) THEN st
    ELSE Now(st, RemapCivs(RemapUnits(st, target_data.civs[c],
                                      SortedSeq(DOMAIN target_data.civs[c].at), id_mapping),
                           target_data, c + 1, id_mapping))

\* a pass over the store that rewrites nothing
remap_unit_copy_base_ids_global_skipped(target_data, h, id_mapping) == [heap |-> h, n |-> 0]

\* remap_unit_copy_base_ids_global(target_data, id_mapping) -> [heap, n]
remap_unit_copy_base_ids_global(target_data, h, id_mapping) ==
    RemapCivs([heap |-> h, n |-> 0], target_data, 1, id_mapping)

\* finalize_unit_id_migration(target_data, id_mapping, implanted_indices)
\* -> [heap, n_id, n_refs]
finalize_unit_id_migration(target_data, h, id_mapping, implanted_indices) ==
    LET fixed == fix_implanted_unit_self_ids(target_data, h, implanted_indices)
        remapped == remap_unit_copy_base_ids_global(target_data, fixed.heap, id_mapping)
    IN [heap |-> remapped.heap, n_id |-> fixed.n, n_refs |-> remapped.n]

(***************************************************************************)
(* Program constants of run_dat_sync                                       *)
(***************************************************************************)
UNIT_OFFSET == 600
BIG_START == 2601
OVERRIDE_A == 46
OVERRIDE_B == 557
TECH_OFFSET == 600
TECH_START == 904
TECH_END == 912
TECH_OVERRIDE == 490

(***************************************************************************)
(* Bounds of the explored inputs                                           *)
(***************************************************************************)
\* the source holds at most this many units from BIG_START on
MaxRelocated == 3
\* a store has at most this many civs
MaxCivs == 2
\* implant_units_from_dat is called at most this many times in one behaviour
MaxCalls == 2
\* the source holds at most this many techs from TECH_START on
MaxTechs == 2
\* check_unit_id_coherence is called at most this many times in a row
MaxChecks == 2
\* the source of a run of run_dat_sync holds at most this many units from BIG_START on
SyncRelocated == 10

(***************************************************************************)
(* Input stores                                                            *)
(***************************************************************************)
\* a unit ID of the base game that no implant moves
FOREIGN == OVERRIDE_B + 1

ShapeOf(slot) == <<"building", "living", "projectile">>[(slot % 3) + 1]

\* a decoded unit of the given shape: self, next, v, foreign and none are the
\* values of its unit-ID reference fields, w the value of its other numeric
\* fields, tag its name
MkUnitR(shape, id, self, next, v, foreign, none, w, tag) ==
    LET dead_fish == Some([tracking_unit |-> self, rotation_speed |-> w])
        creatable == Some([train_locations |->
                              << Some([unit_id |-> foreign, button_id |-> 1]),
                                 Some([unit_id |-> v, button_id |-> 2]) >>,
                           hero_mode |-> 0])
        building == Some([stack_unit_id |-> v, head_unit |-> self, transform_unit |-> none,
                          pile_unit |-> next, garrison_type |-> w,
                          annexes |-> << Some([unit_id |-> v, misplacement |-> 0]),
                                         None,
                                         Some([unit_id |-> none, misplacement |-> 0]) >>])
        projectile == Some([projectile_unit_id |-> v, projectile_arc |-> 0])
    IN [id |-> id, name |-> tag, hit_points |-> w,
        copy_id |-> self, base_id |-> v, dead_unit_id |-> next, blood_unit_id |-> none,
        building |-> IF shape = "building" THEN building ELSE None,
        projectile |-> IF shape = "projectile" THEN projectile ELSE None,
        dead_fish |-> dead_fish,
        creatable |-> IF shape = "projectile" THEN None ELSE creatable]

\* a decoded unit in slot `id`: its own references point to itself and its
\* successor, `v` is a reference to some other unit, `tag` tells the civs apart
MkUnit(id, v, tag) == MkUnitR(ShapeOf(id), id, id, id + 1, v, FOREIGN, -1, v, tag)

\* a non-blank unit header
MkHeader(tag, slot) == [exists |-> 1, task_list |-> <<tag, slot>>]

\* unit_headers of length n with the non-blank headers at `slots`
MkHeaders(tag, n, slots) ==
    [len |-> n, at |-> [i \in {j \in slots : j < n} |-> MkHeader(tag, i)]]

\* civ.units of length n holding the objects <<tag, c, i>> at `slots`
MkUnits(tag, c, n, slots) ==
    [len |-> n, at |-> [i \in {j \in slots : j < n} |-> <<tag, c, i>>]]

\* the slots civ c (0-based) of the source fills: the second civ lacks one unit
SourceSlots(c, n) ==
    ({OVERRIDE_A, OVERRIDE_B} \cup (BIG_START .. (n - 1))) \ (IF c = 1 THEN {BIG_START + 1} ELSE {})

\* the slots of the baseline target: it has units of its own under the numeric
\* IDs the source's new units use
TargetSlots(n) == {i \in {OVERRIDE_A, OVERRIDE_B, BIG_START, BIG_START + 1,
                          BIG_START + UNIT_OFFSET} : i < n}

\* the effect a tech of the input stores applies
EffectIdOf(tech_id) == tech_id - 4

\* a decoded tech: it requires its neighbours, the tech TECH_OVERRIDE and the
\* second tech of the range that run_dat_sync relocates
MkTech(tag, tech_id, effect_id) ==
    [name |-> tag \o " tech " \o ToString(tech_id), effect_id |-> effect_id,
     required_techs |-> <<tech_id - 1, tech_id + 1, TECH_OVERRIDE, TECH_START + 1, -1, -1>>,
     research_time |-> tech_id]

MkEffect(tag, effect_id) ==
    [name |-> tag \o " effect " \o ToString(effect_id), effect_commands |-> <<effect_id>>]

\* techs of length n_techs: the techs at `slots` are told apart, the others look
\* like tech 0; the tech in slot `odd` has the effect_id odd_effect
MkTechs(tag, n_techs, slots, odd, odd_effect) ==
    [len |-> n_techs,
     at |-> [i \in {j \in slots : j < n_techs} |->
                MkTech(tag, i, IF i = odd THEN odd_effect ELSE EffectIdOf(i))],
     fill |-> MkTech(tag, 0, 0)]

MkEffects(tag, n_effects, slots) ==
    [len |-> n_effects,
     at |-> [i \in {j \in slots : j < n_effects} |-> MkEffect(tag, i)],
     fill |-> MkEffect(tag, 0)]

\* the techs the stores tell apart
TechSlots(n_techs) == {TECH_OVERRIDE} \cup (TECH_START .. (n_techs - 1))

\* the effect_id of the source's last tech: its own effect, the effect of the
\* tech before it, or one of the two kinds of effect_id the source has no
\* effect for
OddEffects(n_techs) ==
    {EffectIdOf(n_techs - 1), EffectIdOf(n_techs - 2), -1, EffectIdOf(n_techs)}

SourceStore(n, n_headers, n_civs, n_techs, odd_effect) ==
    [unit_headers |-> MkHeaders("S", n_headers, SourceSlots(0, n)),
     civs |-> [c \in 1 .. n_civs |-> MkUnits("S", c - 1, n, SourceSlots(c - 1, n))],
     techs |-> MkTechs("mod", n_techs, TechSlots(n_techs), n_techs - 1, odd_effect),
     effects |-> MkEffects("mod", EffectIdOf(n_techs),
                           {EffectIdOf(i) : i \in TechSlots(n_techs)})]

\* the baseline target; its second civ has a unit in a slot whose header is
\* blank; its tech 0, the placeholder of implant_techs_from_dat, has no effect
\* and differs from its other unremarkable techs
TargetStore(n, n_civs, n_techs) ==
    [unit_headers |-> MkHeaders("T", n, TargetSlots(n)),
     civs |-> [c \in 1 .. n_civs |->
                  MkUnits("T", c - 1, n,
                          TargetSlots(n) \cup (IF c = 2 THEN {OVERRIDE_A + 1} ELSE {}))],
     techs |-> MkTechs("base", n_techs, {0} \cup TechSlots(n_techs), 0, -1),
     effects |-> MkEffects("base", EffectIdOf(n_techs),
                           {EffectIdOf(i) : i \in TechSlots(n_techs)})]

\* the heap of freshly parsed stores: every slot has an object of its own whose
\* id is its slot index; a source unit refers to unit v, a target unit to itself
InitialHeap(src, tgt, v) ==
    [o \in StoreRefs(src) \cup StoreRefs(tgt) |->
        IF o[1] = "S" THEN MkUnit(o[3], v, "mod civ " \o ToString(o[2]))
        ELSE MkUnit(o[3], o[3], "base civ " \o ToString(o[2]))]

(***************************************************************************)
(* Spec: any calls of implant_units_from_dat, then the finishing pass      *)
(***************************************************************************)
ProbeValues == {BIG_START, BIG_START + 1}
SrcStarts == {BIG_START, BIG_START + 1}
TgtStarts == {OVERRIDE_A, BIG_START + 1, BIG_START + UNIT_OFFSET}
\* the count arguments tried: one unit, and more than the source holds
Counts == {1, MaxRelocated + 1}

\* <<source_start, source_end, count, target_start, copy_extra_civs_from_first>>
ImplantArgs ==
    {<<s, None, Some(k), t, TRUE>> : s \in SrcStarts, k \in Counts, t \in TgtStarts}
    \cup {<<BIG_START, None, Some(k), BIG_START + UNIT_OFFSET, FALSE>> : k \in Counts}

Init ==
    \E n_civs \in 1 .. MaxCivs, v \in ProbeValues :
        /\ source = SourceStore(BIG_START + MaxRelocated, BIG_START + MaxRelocated, n_civs,
                                TECH_START + MaxTechs,
                                EffectIdOf(TECH_START + MaxTechs - 1))
        /\ target = TargetStore(BIG_START + 2, MaxCivs, TECH_START + 1)
        /\ heap = InitialHeap(source, target, v)
        /\ last = [op |-> "init"]
        /\ ncalls = 0
        /\ pc = "free"
        /\ scenario = NoScenario

\* the call implant_units_from_dat(source, target, None, source_start, source_end,
\* count, target_start, copy_extra_civs_from_first=...) and what it leaves
DoImplant(source_start, source_end, count, target_start, copy_extra_civs_from_first) ==
    \E r \in {implant_units_from_dat(source, target, heap, source_start, source_end, count,
                                     target_start, TRUE, copy_extra_civs_from_first)} :
        /\ target' = r.target
        /\ heap' = Collect(r.heap, source, r.target)
        /\ last' = [op |-> "implant", source_start |-> source_start,
                    source_end |-> source_end, count |-> count,
                    target_start |-> target_start,
                    copy_extra_civs_from_first |-> copy_extra_civs_from_first,
                    err |-> r.err, ret |-> r.ret, overwritten |-> r.overwritten,
                    notice |-> r.notice, written |-> r.written, reads |-> r.reads]
        /\ ncalls' = ncalls + 1
        /\ UNCHANGED source

\* one call of implant_units_from_dat
ImplantCall ==
    /\ pc = "free"
    /\ ncalls < MaxCalls
    /\ \E a \in ImplantArgs : DoImplant(a[1], a[2], a[3], a[4], a[5])
    /\ UNCHANGED pc
    /\ UNCHANGED scenario

\* finalize_unit_id_migration, once, after the implants: with the relocation map
\* and the slots of the implant that has just returned
FinalizeCall ==
    /\ pc = "free"
    /\ last.op = "implant"
    /\ last.err = None
    /\ LET id_mapping == RangeMapping(last.source_start, last.target_start, last.ret)
           implanted_indices == last.target_start .. (last.target_start + last.ret - 1)
       IN \E r \in {finalize_unit_id_migration(target, heap, id_mapping, implanted_indices)} :
          /\ heap' = r.heap
          /\ last' = [op |-> "finalize", id_mapping |-> id_mapping,
                      implanted_indices |-> implanted_indices,
                      n_id |-> r.n_id, n_refs |-> r.n_refs]
          /\ pc' = "finalized"
          /\ UNCHANGED <<source, target, ncalls>>
    /\ UNCHANGED scenario

Next == ImplantCall \/ FinalizeCall

Spec == Init /\ [][Next]_vars
(***************************************************************************)
(* Properties of Spec                                                      *)
(***************************************************************************)
\* every unit of the store that has an id has the index of its slot as id
AlignedStore(data, h) ==
    \A c \in DOMAIN data.civs : \A i \in DOMAIN data.civs[c].at :
        LET u == h[data.civs[c].at[i]] IN "id" \in DOMAIN u => u.id = i

\* C1: the baseline target has id = slot index in every non-empty unit slot, and
\* after any sequence of implant_units_from_dat calls, and after
\* finalize_unit_id_migration, every non-empty unit slot of every civ of the
\* target still holds a unit whose id is the index of the slot.
C1_SlotAlignment == AlignedStore(target, heap)

\* implants and the finishing pass have run and relocated units are in place
C1_Witness ==
    /\ pc = "finalized"
    /\ ncalls >= 2
    /\ \E c \in DOMAIN target.civs, i \in last.implanted_indices :
          /\ i >= BIG_START + UNIT_OFFSET
          /\ Occupied(target.civs[c], i)
          /\ heap[target.civs[c].at[i]].id = i

\* the destination slots of the implant call recorded in l
Footprint(l) == l.target_start .. (l.target_start + l.ret - 1)

\* outside F, every slot the list had holds afterwards what it held before, and
\* every slot the list has gained is blank
SameOutside(before, after, F) ==
    /\ after.len >= before.len
    /\ \A i \in (DOMAIN before.at \cup DOMAIN after.at) \ F :
          /\ i \in DOMAIN before.at
          /\ i \in DOMAIN after.at
          /\ after.at[i] = before.at[i]

C2_Step ==
    (last'.op = "implant" /\ last'.err = None) =>
        /\ StoreView(source', heap') = StoreView(source, heap)
        /\ SameOutside(target.unit_headers, target'.unit_headers, Footprint(last'))
        /\ DOMAIN target'.civs = DOMAIN target.civs
        /\ \A c \in DOMAIN target.civs :
              SameOutside(ListView(target.civs[c], heap), ListView(target'.civs[c], heap'),
                          Footprint(last'))

\* C2: a call of implant_units_from_dat with target start T that returns K leaves
\* every header slot and every unit slot of every civ of the target outside
\* [T, T+K) holding the record it held before the call, and leaves every record
\* of the source as it was, also when [source_start, source_start+K) and
\* [T, T+K) overlap.
C2_FootprintContainment == [][C2_Step]_vars

\* an implant whose destination range overlaps its source range numerically has
\* returned, and the baseline unit just below the destination is still there
C2_Witness ==
    /\ last.op = "implant"
    /\ last.err = None
    /\ last.source_start = BIG_START
    /\ last.target_start = BIG_START + 1
    /\ last.ret >= 2
    /\ Occupied(target.civs[1], BIG_START)
    /\ heap[target.civs[1].at[BIG_START]] = MkUnit(BIG_START, BIG_START, "base civ 0")

\* the value a reference v of a source unit must have in the copy made by call l
Shifted(v, l) ==
    IF l.source_start <= v /\ v < l.source_start + l.ret
    THEN v + (l.target_start - l.source_start)
    ELSE v

\* the copy of source unit u that call l must leave in slot tgt_idx: the id is
\* the slot, every reference field is shifted once, every other field is u's
ExpectedCopy(u, tgt_idx, l) ==
    MkUnitR(ShapeOf(u.id), tgt_idx, Shifted(u.id, l), Shifted(u.id + 1, l),
            Shifted(u.base_id, l), Shifted(FOREIGN, l), Shifted(-1, l), u.hit_points, u.name)

\* C3: after an implant with offset = target_start - source_start that returns K,
\* in every copied unit each enumerated reference field whose source value v is
\* in [source_start, source_start+K) holds v+offset (shifted once, also when
\* v+offset is in the source range again), and every other field holds the
\* source's value.
C3_ScopedRewrite ==
    (last.op = "implant" /\ last.err = None) =>
        \A i \in 0 .. (last.ret - 1), c \in DOMAIN target.civs :
            LET u == SourceUnit(source, c - 1, last.source_start + i,
                                last.copy_extra_civs_from_first)
                tgt_idx == last.target_start + i
            IN u # None =>
                 /\ Occupied(target.civs[c], tgt_idx)
                 /\ heap[target.civs[c].at[tgt_idx]] = ExpectedCopy(heap[u[1]], tgt_idx, last)

\* units BIG_START.. were implanted one slot up: the copy of BIG_START refers to
\* itself under its new ID BIG_START+1, which is an old ID of the range too,
\* and still to the foreign unit
C3_Witness ==
    /\ last.op = "implant"
    /\ last.err = None
    /\ last.source_start = BIG_START
    /\ last.target_start = BIG_START + 1
    /\ last.ret >= 2
    /\ LET u == heap[target.civs[1].at[BIG_START + 1]]
       IN /\ u.copy_id = BIG_START + 1
          /\ u.building[1].head_unit = BIG_START + 1
          /\ u.creatable[1].train_locations[1][1].unit_id = FOREIGN
(***************************************************************************)
(* SpecArgs: one call of an implant, over the argument space               *)
(***************************************************************************)
SourceEnds(source_start, n) ==
    {None} \cup {Some(e) : e \in {source_start - 1, source_start, source_start + 1, n - 1, n}}

CountArgs(most) == {None} \cup {Some(k) : k \in {-1, 0, 1, 2, most + 1}}

\* <<source_start, source_end, count, target_start>> of the unit implants tried
UnitCallArgs ==
    LET n == BIG_START + MaxRelocated
    IN {<<s, e, k, t>> :
           s \in {BIG_START, BIG_START + 1, n - 1, n, n + 1}, e \in SourceEnds(BIG_START + 1, n) \cup
                                                         SourceEnds(n - 1, n),
           k \in CountArgs(MaxRelocated),
           t \in {OVERRIDE_A, BIG_START + UNIT_OFFSET}}

\* <<source_start, source_end, count, target_tech_start>> of the tech implants tried
TechCallArgs ==
    LET n == TECH_START + MaxTechs
    IN {<<s, e, k, t>> :
           s \in {TECH_START, n - 1, n, n + 1},
           e \in SourceEnds(TECH_START, n) \cup SourceEnds(n - 1, n),
           k \in CountArgs(MaxTechs),
           t \in {TECH_START, TECH_START + TECH_OFFSET}}

InitArgs ==
    \E n_civs \in 0 .. MaxCivs, odd_effect \in OddEffects(TECH_START + MaxTechs) :
        /\ source = SourceStore(BIG_START + MaxRelocated, BIG_START + MaxRelocated, n_civs,
                                TECH_START + MaxTechs, odd_effect)
        /\ target = TargetStore(BIG_START + 2, MaxCivs, TECH_START + 1)
        /\ heap = InitialHeap(source, target, BIG_START + 1)
        /\ last = [op |-> "init"]
        /\ ncalls = 0
        /\ pc = "args"
        /\ scenario = NoScenario

\* the call implant_techs_from_dat(source, target, None, source_start, source_end,
\* count, target_tech_start) and what it leaves
DoTechImplant(source_start, source_end, count, target_tech_start) ==
    \E r \in {implant_techs_from_dat(source, target, source_start, source_end, count,
                                     target_tech_start, TRUE)} :
        /\ target' = r.target
        /\ last' = [op |-> "implant_techs", source_start |-> source_start,
                    source_end |-> source_end, count |-> count,
                    target_start |-> target_tech_start,
                    err |-> r.err, ret |-> r.ret,
                    overwritten_effects |-> r.overwritten_effects,
                    overwritten_techs |-> r.overwritten_techs, notice |-> r.notice,
                    written |-> r.written, written_effects |-> r.written_effects,
                    reads |-> r.reads]
        /\ ncalls' = ncalls + 1
        /\ UNCHANGED <<source, heap>>

ArgsUnitImplant ==
    /\ pc = "args"
    /\ \E a \in UnitCallArgs, copy_extra_civs_from_first \in BOOLEAN :
          DoImplant(a[1], a[2], a[3], a[4], copy_extra_civs_from_first)
    /\ pc' = "returned"
    /\ UNCHANGED scenario

ArgsTechImplant ==
    /\ pc = "args"
    /\ \E a \in TechCallArgs : DoTechImplant(a[1], a[2], a[3], a[4])
    /\ pc' = "returned"
    /\ UNCHANGED scenario

NextArgs == ArgsUnitImplant \/ ArgsTechImplant

SpecArgs == InitArgs /\ [][NextArgs]_vars

(***************************************************************************)
(* Properties of SpecArgs                                                  *)
(***************************************************************************)
\* the number of records of the source list the call recorded in l ranges over
SourceLength(l) == IF l.op = "implant" THEN UnitCount(source) ELSE source.techs.len

ImplantOps == {"implant", "implant_techs"}

\* the length of the range the arguments of l ask for, before any clamping
AskedCount(l) ==
    IF l.count # None THEN l.count[1]
    ELSE IF l.source_end # None THEN l.source_end[1] - l.source_start + 1
    ELSE SourceLength(l) - l.source_start

\* the four cases of bad arguments; source_end is looked at in a call that gives
\* no count, for a count that is given selects the range (C7)
BadArguments(l) ==
    \/ l.source_start >= SourceLength(l)
    \/ /\ l.count = None
       /\ l.source_end # None
       /\ \/ l.source_end[1] < l.source_start
          \/ l.source_end[1] >= SourceLength(l)
    \/ Min(AskedCount(l), SourceLength(l) - l.source_start) <= 0

RangeErrors ==
    {Some("source_start out of range"), Some("source_end < source_start"),
     Some("source_end out of range"), Some("implant count is 0")}

\* C5: implant_units_from_dat and implant_techs_from_dat raise an error when
\* source_start >= the source's length, when the source_end that selects the
\* range is < source_start or beyond the source's last index, and when the
\* resulting count is <= 0 (a count of 0 or a negative count included).
C5_ArgumentErrors ==
    (last.op \in ImplantOps /\ BadArguments(last)) => last.err \in RangeErrors

\* a tech implant called with count = 0, and a start inside the source, has raised
C5_Witness ==
    /\ last.op = "implant_techs"
    /\ last.source_start < source.techs.len
    /\ last.count = Some(0)
    /\ last.err = Some("implant count is 0")

\* the source elements the call recorded in l indexed are all inside their lists
ReadsInBounds(l) ==
    \A rd \in l.reads :
        /\ rd.idx >= 0
        /\ rd.list = "units" => rd.idx < source.civs[rd.civ + 1].len
        /\ rd.list = "unit_headers" => rd.idx < source.unit_headers.len
        /\ rd.list = "techs" => rd.idx < source.techs.len
        /\ rd.list = "effects" => rd.idx < source.effects.len

\* the call recorded in l has a start inside the source and a count beyond its end
Oversized(l) ==
    /\ l.source_start >= 0
    /\ l.source_start < SourceLength(l)
    /\ l.count # None
    /\ l.count[1] > SourceLength(l) - l.source_start

\* C6: an implant called with a source_start inside the source and a count larger
\* than (source length - source_start) raises no range error, returns
\* source length - source_start, has written exactly that many slots, the slots
\* from target_start on, and has indexed no source list at or beyond its length.
\* (A tech implant still raises for a tech of the clamped range whose effect_id
\* the source has no effect for; with none such it returns as said.)
C6_CountClamping ==
    (last.op \in ImplantOps /\ Oversized(last)) =>
        /\ last.err \notin RangeErrors
        /\ (last.op = "implant_techs"
              /\ BadEffectIds(source, last.source_start,
                              SourceLength(last) - last.source_start) = {})
           => last.err = None
        /\ last.op = "implant" => last.err = None
        /\ last.err = None =>
              /\ last.ret = SourceLength(last) - last.source_start
              /\ last.written = last.target_start .. (last.target_start + last.ret - 1)
              /\ Cardinality(last.written) = last.ret
              /\ ReadsInBounds(last)
              /\ last.op = "implant" =>
                    \A i \in last.written :
                        /\ i < target.unit_headers.len
                        /\ \A c \in DOMAIN target.civs : i < target.civs[c].len

\* a unit implant was asked for more units than the source holds from
\* source_start on, and has copied the units the source holds
C6_Witness ==
    /\ last.op = "implant"
    /\ last.source_start = BIG_START + 1
    /\ last.count = Some(MaxRelocated + 1)
    /\ last.err = None
    /\ last.ret = MaxRelocated - 1
    /\ Occupied(target.civs[1], BIG_START + UNIT_OFFSET + MaxRelocated - 2)
    /\ ~Occupied(target.civs[1], BIG_START + UNIT_OFFSET + MaxRelocated - 1)

\* the same for a tech implant
C6_WitnessTechs ==
    /\ last.op = "implant_techs"
    /\ last.source_start = TECH_START
    /\ last.count = Some(MaxTechs + 1)
    /\ last.err = None
    /\ last.ret = MaxTechs

C7_Step ==
    /\ (last'.op = "implant" /\ last'.count # None /\ last'.source_end # None) =>
          LET r == implant_units_from_dat(source, target, heap, last'.source_start, None,
                                          last'.count, last'.target_start, TRUE,
                                          last'.copy_extra_civs_from_first)
          IN /\ last'.err = r.err
             /\ last'.ret = r.ret
             /\ target' = r.target
             /\ heap' = Collect(r.heap, source, r.target)
             /\ r.err = None =>
                   r.ret = Min(last'.count[1], UnitCount(source) - last'.source_start)
    /\ (last'.op = "implant_techs" /\ last'.count # None /\ last'.source_end # None) =>
          LET r == implant_techs_from_dat(source, target, last'.source_start, None,
                                          last'.count, last'.target_start, TRUE)
          IN /\ last'.err = r.err
             /\ last'.ret = r.ret
             /\ target' = r.target
             /\ r.err = None =>
                   r.ret = Min(last'.count[1], source.techs.len - last'.source_start)

\* C7: a call of an implant that passes both source_end and count fails or
\* returns, and leaves the target, exactly as the same call without source_end:
\* the range has Min(count, source length - source_start) records whatever
\* source_end is.
C7_CountWins == [][C7_Step]_vars

\* a unit implant was given a count of 1 and a source_end below source_start,
\* and copied one unit
C7_Witness ==
    /\ last.op = "implant"
    /\ last.count = Some(1)
    /\ last.source_end # None
    /\ last.source_end[1] < last.source_start
    /\ last.err = None
    /\ last.ret = 1
(***************************************************************************)
(* SpecCheck: check_unit_id_coherence called on the target at any time:    *)
(* before and after implants, and after one record's id was reset by hand  *)
(***************************************************************************)
\* <<source_start, source_end, count, target_start>> of the implants of SpecCheck
CheckedImplants ==
    { <<BIG_START, Some(BIG_START + MaxRelocated - 1), None, BIG_START + UNIT_OFFSET>>,
      <<OVERRIDE_A, None, Some(1), OVERRIDE_A>> }

RelocatedSlots(n_units) == (BIG_START + UNIT_OFFSET) .. (n_units + UNIT_OFFSET - 1)
MigratedIds(n_units) == BIG_START .. (n_units - 1)

\* the implanted_indices and migrated_old_ids arguments tried
CheckedSlotSets ==
    { RelocatedSlots(BIG_START + MaxRelocated),
      {OVERRIDE_A, OVERRIDE_B, BIG_START} \cup RelocatedSlots(BIG_START + MaxRelocated + 1) }
CheckedIdSets == { MigratedIds(BIG_START + MaxRelocated), {BIG_START + 1} }

InitCheck ==
    \E n_civs \in 1 .. MaxCivs, v \in ProbeValues :
        /\ source = SourceStore(BIG_START + MaxRelocated, BIG_START + MaxRelocated, n_civs,
                                TECH_START + MaxTechs,
                                EffectIdOf(TECH_START + MaxTechs - 1))
        /\ target = TargetStore(BIG_START + 2, MaxCivs, TECH_START + 1)
        /\ heap = InitialHeap(source, target, v)
        /\ last = [op |-> "init"]
        /\ ncalls = 0
        /\ pc = "c_free"
        /\ scenario = NoScenario

CkImplant ==
    /\ pc = "c_free"
    /\ last.op # "check"
    /\ ncalls < MaxCalls
    /\ \E a \in CheckedImplants : DoImplant(a[1], a[2], a[3], a[4], TRUE)
    /\ UNCHANGED pc
    /\ UNCHANGED scenario

\* the id of the unit in `slot` of civ c (0-based) is set to `value` by hand
\* (the manual reset of E2E C in the specification; no code of the repository)
ResetId(c, slot, value) ==
    /\ Occupied(target.civs[c + 1], slot)
    /\ heap' = [heap EXCEPT ![target.civs[c + 1].at[slot]].id = value]
    /\ last' = [op |-> "reset", civ |-> c, slot |-> slot, value |-> value]
    /\ UNCHANGED <<source, target, ncalls>>

CkReset ==
    /\ pc = "c_free"
    /\ last.op # "check"
    /\ \E slot \in {OVERRIDE_A, BIG_START + UNIT_OFFSET} : ResetId(0, slot, BIG_START)
    /\ pc' = "c_reset"
    /\ UNCHANGED scenario

\* the call check_unit_id_coherence(target, implanted_indices, migrated_old_ids)
DoCheck(implanted_indices, migrated_old_ids) ==
    \E r \in {check_unit_id_coherence(target, heap, implanted_indices, migrated_old_ids)} :
        /\ heap' = r.heap
        /\ last' = [op |-> "check", implanted_indices |-> implanted_indices,
                    migrated_old_ids |-> migrated_old_ids, issues |-> r.issues,
                    run |-> IF last.op = "check" THEN last.run + 1 ELSE 1,
                    again |-> /\ last.op = "check"
                              /\ last.implanted_indices = implanted_indices
                              /\ last.migrated_old_ids = migrated_old_ids]
        /\ UNCHANGED <<source, target, ncalls>>

CkCheck ==
    /\ pc \in {"c_free", "c_reset"}
    /\ last.op = "check" => last.run < MaxChecks
    /\ \E slots \in CheckedSlotSets, ids \in CheckedIdSets : DoCheck(slots, ids)
    /\ UNCHANGED pc
    /\ UNCHANGED scenario

NextCheck == CkImplant \/ CkReset \/ CkCheck

SpecCheck == InitCheck /\ [][NextCheck]_vars

(***************************************************************************)
(* Properties of SpecCheck                                                 *)
(***************************************************************************)
\* the values of the unit-ID reference fields of a unit
ReferenceValues(u) ==
    {u.copy_id, u.base_id, u.dead_unit_id, u.blood_unit_id, u.dead_fish[1].tracking_unit}
    \cup (IF u.building = None THEN {}
          ELSE {u.building[1].stack_unit_id, u.building[1].head_unit,
                u.building[1].transform_unit, u.building[1].pile_unit}
               \cup {e[1].unit_id : e \in {x \in Range(u.building[1].annexes) : x # None}})
    \cup (IF u.projectile = None THEN {} ELSE {u.projectile[1].projectile_unit_id})
    \cup (IF u.creatable = None THEN {}
          ELSE {e[1].unit_id : e \in {x \in Range(u.creatable[1].train_locations) : x # None}})

\* the list of issues names slot i of civ c (0-based)
Reported(issues, c, i) ==
    \E k \in DOMAIN issues : issues[k].unit_index = i /\ issues[k].civ_index = c

\* slot i of civ c (0-based) of the target is due an issue
Incoherent(c, i, implanted_slots, stale_ids) ==
    /\ i \in implanted_slots
    /\ Occupied(target.civs[c + 1], i)
    /\ LET u == heap[target.civs[c + 1].at[i]]
       IN u.id # i \/ ReferenceValues(u) \cap stale_ids # {}

\* C8: check_unit_id_coherence reports an issue for a (slot, civ) exactly when
\* the slot is in implanted_indices, the slot holds a unit, and the unit's id
\* differs from the slot index or one of its reference fields holds a value of
\* migrated_old_ids; no slot outside implanted_indices is ever reported.
C8_CheckerScope ==
    last.op = "check" =>
        /\ \A k \in DOMAIN last.issues :
              /\ last.issues[k].unit_index \in last.implanted_indices
              /\ last.issues[k].civ_index \in 0 .. (Len(target.civs) - 1)
        /\ \A c \in 0 .. (Len(target.civs) - 1) :
              \A i \in last.implanted_indices \cup DOMAIN target.civs[c + 1].at :
                  Reported(last.issues, c, i)
                      <=> Incoherent(c, i, last.implanted_indices, last.migrated_old_ids)

\* a check has reported the implanted unit of slot OVERRIDE_A for a stale
\* reference and has not reported the baseline unit of slot BIG_START + 1, which
\* is outside implanted_indices and refers to the stale ID BIG_START + 1
C8_Witness ==
    /\ last.op = "check"
    /\ OVERRIDE_A \in last.implanted_indices
    /\ BIG_START + 1 \notin last.implanted_indices
    /\ BIG_START + 1 \in last.migrated_old_ids
    /\ Occupied(target.civs[1], BIG_START + 1)
    /\ heap[target.civs[1].at[BIG_START + 1]].copy_id = BIG_START + 1
    /\ Reported(last.issues, 0, OVERRIDE_A)
    /\ ~Reported(last.issues, 0, BIG_START + 1)
    /\ \E k \in DOMAIN last.issues : last.issues[k].field_path # "id"

C9_Step ==
    last'.op = "check" =>
        /\ StoreView(target', heap') = StoreView(target, heap)
        /\ StoreView(source', heap') = StoreView(source, heap)
        /\ last'.again => last'.issues = last.issues

\* C9: a call of check_unit_id_coherence leaves every record of the store as it
\* was, and a second call on the unchanged store with the same implanted_indices
\* and migrated_old_ids returns the list the first call returned.
C9_CheckerReadOnlyIdempotent == [][C9_Step]_vars

\* the same check has run twice in a row on a store with a unit whose id was
\* reset, and has reported it
C9_Witness ==
    /\ pc = "c_reset"
    /\ last.op = "check"
    /\ last.again
    /\ \E k \in DOMAIN last.issues : last.issues[k].field_path = "id"
(***************************************************************************)
(* SpecSync: run_dat_sync, statement by statement up to the tech implants  *)
(* (the graphics and sound implants that follow work on other lists), then *)
(* a check of the finished store, before or after one id was reset by hand *)
(***************************************************************************)
\* what the units of the source refer to: a unit of the relocated range, the
\* first of them, a unit of the base game
SyncProbeValues == {BIG_START + 6, BIG_START, FOREIGN}

InitSync ==
    \E n_civs \in 1 .. MaxCivs, v \in SyncProbeValues,
       n_units \in {BIG_START, BIG_START + SyncRelocated},
       n_techs \in {TECH_END, TECH_END + 1} :
        \E odd_effect \in OddEffects(n_techs) :
            /\ source = SourceStore(n_units, n_units, n_civs, n_techs, odd_effect)
            /\ target = TargetStore(BIG_START + 2, MaxCivs, TECH_START + 1)
            /\ heap = InitialHeap(source, target, v)
            /\ last = [op |-> "init"]
            /\ ncalls = 0
            /\ pc = "sync_big"
            /\ scenario = NoScenario

\* an error raised by a call ends the run
AfterCall(next_pc) == pc' = IF last'.err = None THEN next_pc ELSE "aborted"

\* lines 94-101
SyncBig ==
    /\ pc = "sync_big"
    /\ IF UnitCount(source) > BIG_START
       THEN /\ DoImplant(BIG_START, Some(UnitCount(source) - 1), None,
                         BIG_START + UNIT_OFFSET, TRUE)
            /\ AfterCall("sync_a")
       ELSE /\ pc' = "sync_a"
            /\ UNCHANGED <<source, target, heap, last, ncalls>>
    /\ UNCHANGED scenario

\* line 102
SyncOverrideA ==
    /\ pc = "sync_a"
    /\ DoImplant(OVERRIDE_A, None, Some(1), OVERRIDE_A, TRUE)
    /\ AfterCall("sync_b")
    /\ UNCHANGED scenario

\* line 103
SyncOverrideB ==
    /\ pc = "sync_b"
    /\ DoImplant(OVERRIDE_B, None, Some(1), OVERRIDE_B, TRUE)
    /\ AfterCall("sync_finalize")
    /\ UNCHANGED scenario

\* _implanted_indices of lines 106-108
SyncImplantedIndices(n_units) ==
    {OVERRIDE_A, OVERRIDE_B}
    \cup (IF n_units > BIG_START THEN RelocatedSlots(n_units) ELSE {})

\* _unit_id_map of lines 109-111
SyncUnitIdMap(n_units) ==
    IF n_units > BIG_START THEN [i \in BIG_START .. (n_units - 1) |-> i + UNIT_OFFSET]
    ELSE <<>>

\* _migrated_old of line 115
SyncMigratedOld(n_units) == IF n_units > BIG_START THEN MigratedIds(n_units) ELSE {}

\* the finishing pass run before the implant of OVERRIDE_B
SyncFinalize_early ==
    /\ pc = "sync_b"
    /\ \E r \in {finalize_unit_id_migration(target, heap, SyncUnitIdMap(UnitCount(source)),
                                            SyncImplantedIndices(UnitCount(source)))} :
          /\ heap' = r.heap
          /\ last' = [op |-> "finalize", id_mapping |-> SyncUnitIdMap(UnitCount(source)),
                      implanted_indices |-> SyncImplantedIndices(UnitCount(source)),
                      n_id |-> r.n_id, n_refs |-> r.n_refs]
    /\ pc' = "sync_b"
    /\ UNCHANGED <<source, target, ncalls>>
    /\ UNCHANGED scenario

\* line 112
SyncFinalize ==
    /\ pc = "sync_finalize"
    /\ \E r \in {finalize_unit_id_migration(target, heap, SyncUnitIdMap(UnitCount(source)),
                                            SyncImplantedIndices(UnitCount(source)))} :
          /\ heap' = r.heap
          /\ last' = [op |-> "finalize", id_mapping |-> SyncUnitIdMap(UnitCount(source)),
                      implanted_indices |-> SyncImplantedIndices(UnitCount(source)),
                      n_id |-> r.n_id, n_refs |-> r.n_refs]
    /\ pc' = "sync_check"
    /\ UNCHANGED <<source, target, ncalls>>
    /\ UNCHANGED scenario

\* lines 115-125: the issues are printed, the run goes on
SyncCheck ==
    /\ pc = "sync_check"
    /\ DoCheck(SyncImplantedIndices(UnitCount(source)), SyncMigratedOld(UnitCount(source)))
    /\ pc' = "sync_techs_a"
    /\ UNCHANGED scenario

\* line 127
SyncTechOverride ==
    /\ pc = "sync_techs_a"
    /\ DoTechImplant(TECH_OVERRIDE, Some(TECH_OVERRIDE), None, TECH_OVERRIDE)
    /\ AfterCall("sync_techs_b")
    /\ UNCHANGED scenario

\* line 128
SyncTechs ==
    /\ pc = "sync_techs_b"
    /\ DoTechImplant(TECH_START, Some(TECH_END), None, TECH_START + TECH_OFFSET)
    /\ AfterCall("synced")
    /\ UNCHANGED scenario

\* the id of one relocated unit is reset to the ID it had in the source
SyncReset ==
    /\ pc = "synced"
    /\ \E c \in 0 .. (Len(target.civs) - 1), slot \in RelocatedSlots(UnitCount(source)) :
          ResetId(c, slot, slot - UNIT_OFFSET)
    /\ pc' = "reset"
    /\ UNCHANGED scenario

\* a check of the finished store: over the relocated slots, or over all the
\* slots the run implanted
SyncRecheck ==
    /\ pc \in {"synced", "reset"}
    /\ \E slots \in {RelocatedSlots(UnitCount(source)), SyncImplantedIndices(UnitCount(source))} :
          DoCheck(slots, SyncMigratedOld(UnitCount(source)))
    /\ pc' = IF pc = "reset" THEN "rechecked_reset" ELSE "rechecked"
    /\ UNCHANGED scenario

NextSync ==
    \/ SyncBig
    \/ SyncOverrideA
    \/ SyncOverrideB
    \/ SyncFinalize
    \/ SyncCheck
    \/ SyncTechOverride
    \/ SyncTechs
    \/ SyncReset
    \/ SyncRecheck

SpecSync == InitSync /\ [][NextSync]_vars

(***************************************************************************)
(* Properties of SpecSync                                                  *)
(***************************************************************************)
\* the value a reference v must have after the global pass of the run
Relocated(v) ==
    IF BIG_START <= v /\ v < UnitCount(source) THEN v + UNIT_OFFSET ELSE v

\* the source unit an override slot is copied from, for target civ c (1-based)
OverrideSource(c, slot) == heap[SourceUnit(source, c - 1, slot, TRUE)[1]]

\* C4: the unit implanted alone into slot OVERRIDE_A (count = 1) still holds, after
\* its own implant and until the global pass, the source's values in all its
\* reference fields, the old IDs of the relocated range among them; once
\* finalize_unit_id_migration has run remap_unit_copy_base_ids_global with the
\* map of the whole relocated range, each of these fields that held an old ID
\* of the range holds old + UNIT_OFFSET, and the other fields are as before.
C4_GlobalPassNecessity ==
    \A c \in DOMAIN target.civs :
        LET su == OverrideSource(c, OVERRIDE_A)
            tu == heap[target.civs[c].at[OVERRIDE_A]]
        IN /\ pc \in {"sync_b", "sync_finalize"} => tu = su
           /\ pc \in {"sync_check", "sync_techs_a", "sync_techs_b", "synced"} =>
                 tu = MkUnitR(ShapeOf(OVERRIDE_A), OVERRIDE_A, Relocated(su.copy_id),
                              Relocated(su.dead_unit_id), Relocated(su.base_id),
                              Relocated(FOREIGN), Relocated(-1), su.hit_points, su.name)

\* the run has finished the global pass; the override in slot OVERRIDE_A, whose
\* base_id in the source is the old ID BIG_START + 6, now refers to
\* BIG_START + 6 + UNIT_OFFSET
C4_Witness ==
    /\ pc = "sync_check"
    /\ OverrideSource(1, OVERRIDE_A).base_id = BIG_START + 6
    /\ UnitCount(source) > BIG_START + 6
    /\ heap[target.civs[1].at[OVERRIDE_A]].base_id = BIG_START + 6 + UNIT_OFFSET
    /\ heap[target.civs[1].at[OVERRIDE_A]].name = "mod civ 0"

C10_Step ==
    /\ (pc = "sync_check" /\ pc' = "sync_techs_a") => last'.issues = <<>>
    /\ (pc = "synced" /\ pc' = "rechecked") => last'.issues = <<>>
    /\ (pc = "reset" /\ pc' = "rechecked_reset") =>
          /\ Len(last'.issues) = 1
          /\ last'.issues[1].unit_index = last.slot
          /\ last'.issues[1].civ_index = last.civ
          /\ last'.issues[1].field_path = "id"
          /\ last'.issues[1].bad_value = last.value

\* C10: after the migration of the source IDs BIG_START.. to the slots
\* BIG_START + UNIT_OFFSET.. by run_dat_sync, check_unit_id_coherence over the
\* implanted slots with the migrated old IDs returns the empty list; after the
\* id of one relocated unit was reset to its old ID, it returns exactly one
\* issue, which names that slot, that civ and the field "id" (the old ID in
\* the id field gives no issue of a reference field).
C10_CheckAfterMigration == [][C10_Step]_vars

\* IDs 2601..2610 were migrated to 3201..3210, the id of the unit in slot 3205
\* was reset to 2605, and the check over 3201..3210 has returned one issue
C10_Witness ==
    /\ pc = "rechecked_reset"
    /\ last.implanted_indices = (BIG_START + UNIT_OFFSET) .. (BIG_START + UNIT_OFFSET + 9)
    /\ last.migrated_old_ids = BIG_START .. (BIG_START + 9)
    /\ Len(last.issues) = 1
    /\ last.issues[1].unit_index = BIG_START + UNIT_OFFSET + 4
    /\ last.issues[1].field_path = "id"
    /\ last.issues[1].bad_value = BIG_START + 4
    /\ heap[target.civs[1].at[BIG_START + UNIT_OFFSET + 4]].id = BIG_START + 4

(***************************************************************************)
(* Properties of SpecSync: the order of the passes                         *)
(***************************************************************************)
\* the number of calls of implant_units_from_dat a run makes for its source
SyncUnitImplants == IF UnitCount(source) > BIG_START THEN 3 ELSE 2

\* the positions of run_dat_sync at which a unit implant is the next statement
BeforeFinalize == {"sync_big", "sync_a", "sync_b"}

C11_Step ==
    /\ (last'.op = "implant" /\ ncalls' = ncalls + 1) => pc \in BeforeFinalize
    /\ (last'.op = "finalize" /\ last.op # "finalize") =>
          /\ ncalls = SyncUnitImplants
          /\ pc \notin BeforeFinalize
          /\ last.op = "implant"
          /\ last.source_start = OVERRIDE_B
          /\ \A c \in DOMAIN target.civs :
                /\ heap[target.civs[c].at[OVERRIDE_A]] = OverrideSource(c, OVERRIDE_A)
                /\ heap[target.civs[c].at[OVERRIDE_B]] = OverrideSource(c, OVERRIDE_B)
                /\ UnitCount(source) > BIG_START =>
                      target.civs[c].len >= UnitCount(source) + UNIT_OFFSET
    /\ (last'.op = "check" /\ last' # last) =>
          /\ pc \notin BeforeFinalize \cup {"sync_finalize"}
          /\ pc = "sync_check" => last.op = "finalize"

\* C11: in run_dat_sync every call of implant_units_from_dat (the range from
\* BIG_START on, then the overrides OVERRIDE_A and OVERRIDE_B) is made before
\* finalize_unit_id_migration; finalize_unit_id_migration runs when all of them
\* have returned and their copies are in the target; check_unit_id_coherence
\* runs only after finalize_unit_id_migration, directly after it in the run.
C11_PassOrdering == [][C11_Step]_vars

\* a run has made its three unit implants, the global rewrite and the check
C11_Witness ==
    /\ pc = "sync_techs_a"
    /\ last.op = "check"
    /\ ncalls = 3
    /\ UnitCount(source) > BIG_START
    /\ heap[target.civs[1].at[OVERRIDE_B]].name = "mod civ 0"

(***************************************************************************)
(* Properties of SpecArgs: the effects of the implanted techs              *)
(***************************************************************************)
\* C12: after a tech implant with offset = target_tech_start - source_start,
\* for every implanted tech, whose source has the effect_id e, target.effects
\* holds at e + offset a copy of the source's effect e, and the implanted
\* tech's effect_id is e + offset: it points at a copy of the effect its
\* source points at.
C12_EffectsFollowTechs ==
    (last.op = "implant_techs" /\ last.err = None) =>
        \A i \in 0 .. (last.ret - 1) :
            LET offset == last.target_start - last.source_start
                src == ItemAt(source.techs, last.source_start + i)
                tgt == ItemAt(target.techs, last.target_start + i)
            IN /\ tgt.effect_id = src.effect_id + offset
               /\ src.effect_id + offset < target.effects.len
               /\ src.effect_id + offset \in last.written_effects
               /\ ItemAt(target.effects, src.effect_id + offset)
                     = ItemAt(source.effects, src.effect_id)
               /\ ItemAt(target.effects, tgt.effect_id)
                     = ItemAt(source.effects, src.effect_id)

\* the techs from TECH_START on were implanted TECH_OFFSET higher: the copy of
\* TECH_START points at the copy of its effect, TECH_OFFSET higher too
C12_Witness ==
    /\ last.op = "implant_techs"
    /\ last.err = None
    /\ last.source_start = TECH_START
    /\ last.target_start = TECH_START + TECH_OFFSET
    /\ last.ret >= 2
    /\ ItemAt(target.techs, TECH_START + TECH_OFFSET).effect_id
          = EffectIdOf(TECH_START) + TECH_OFFSET
    /\ ItemAt(target.effects, EffectIdOf(TECH_START) + TECH_OFFSET)
          = MkEffect("mod", EffectIdOf(TECH_START))

(***************************************************************************)
(* Properties of SpecSync: the techs after run_dat_sync                    *)
(***************************************************************************)
RelocatedTechs == TECH_START .. TECH_END

\* C13: once run_dat_sync has implanted the techs, every required_techs entry
\* of the override tech TECH_OVERRIDE that pointed, in the source, into the
\* relocated range TECH_START..TECH_END points to the relocated ID, the old one
\* plus TECH_OFFSET, as a global rewrite of the techs with the union map would
\* leave it.
C13_TechGlobalRewrite ==
    pc = "synced" =>
        LET src == ItemAt(source.techs, TECH_OVERRIDE)
            tgt == ItemAt(target.techs, TECH_OVERRIDE)
        IN \A k \in DOMAIN src.required_techs :
               src.required_techs[k] \in RelocatedTechs =>
                   tgt.required_techs[k] = src.required_techs[k] + TECH_OFFSET

\* run_dat_sync is over: the copy of tech TECH_START + 1 lives TECH_OFFSET
\* higher, and the override tech still requires the old ID
C13_Witness ==
    /\ pc = "synced"
    /\ TECH_START + 1 \in
          {ItemAt(source.techs, TECH_OVERRIDE).required_techs[k] : k \in 1 .. 6}
    /\ ItemAt(target.techs, TECH_OVERRIDE).required_techs
          = ItemAt(source.techs, TECH_OVERRIDE).required_techs
    /\ ItemAt(target.techs, TECH_START + 1 + TECH_OFFSET).name
          = ItemAt(source.techs, TECH_START + 1).name

(***************************************************************************)
(* SpecDrift: implants from a source whose units were decoded under        *)
(* another schema and lack some of the unit-ID reference fields            *)
(***************************************************************************)
\* the fields the decoded source units lack, by name: of the unit itself or of
\* its building part
DriftedFields == {{"base_id"}, {"copy_id", "blood_unit_id"}, {"head_unit"}}

\* a unit without the fields `missing`: hasattr is false for them
Drift(unit, missing) ==
    LET u == [a \in DOMAIN unit \ missing |-> unit[a]]
    IN IF getattr(u, "building") # None
       THEN [u EXCEPT !.building =
                Some([a \in DOMAIN @[1] \ missing |-> @[1][a]])]
       ELSE u

DriftArgs ==
    {<<BIG_START, None, Some(k), t, TRUE>> :
        k \in Counts, t \in {BIG_START + 1, BIG_START + UNIT_OFFSET}}

InitDrift ==
    \E missing \in DriftedFields, v \in ProbeValues :
        /\ source = SourceStore(BIG_START + MaxRelocated, BIG_START + MaxRelocated, 1,
                                TECH_START + MaxTechs,
                                EffectIdOf(TECH_START + MaxTechs - 1))
        /\ target = TargetStore(BIG_START + 2, MaxCivs, TECH_START + 1)
        /\ heap = [o \in DOMAIN InitialHeap(source, target, v) |->
                      IF o[1] = "S" THEN Drift(InitialHeap(source, target, v)[o], missing)
                      ELSE InitialHeap(source, target, v)[o]]
        /\ last = [op |-> "init"]
        /\ ncalls = 0
        /\ pc = "drift"
        /\ scenario = NoScenario

\* one call of implant_units_from_dat
DriftImplant ==
    /\ pc = "drift"
    /\ ncalls < MaxCalls
    /\ \E a \in DriftArgs : DoImplant(a[1], a[2], a[3], a[4], a[5])
    /\ UNCHANGED pc
    /\ UNCHANGED scenario

\* finalize_unit_id_migration after the implants, as run_dat_sync calls it
DriftFinalize ==
    /\ pc = "drift"
    /\ last.op = "implant"
    /\ last.err = None
    /\ LET id_mapping == RangeMapping(last.source_start, last.target_start, last.ret)
           implanted_indices == last.target_start .. (last.target_start + last.ret - 1)
       IN \E r \in {finalize_unit_id_migration(target, heap, id_mapping, implanted_indices)} :
          /\ heap' = r.heap
          /\ last' = [op |-> "finalize", id_mapping |-> id_mapping,
                      implanted_indices |-> implanted_indices,
                      n_id |-> r.n_id, n_refs |-> r.n_refs]
          /\ pc' = "drift_finalized"
          /\ UNCHANGED <<source, target, ncalls>>
    /\ UNCHANGED scenario

NextDrift == DriftImplant \/ DriftFinalize

SpecDrift == InitDrift /\ [][NextDrift]_vars

(***************************************************************************)
(* Properties of SpecDrift                                                 *)
(***************************************************************************)
\* the unit lacks one of the reference fields the rewrite expects
LacksReferenceField(unit) ==
    \/ \E a \in Range(TopAttrs) : a \notin DOMAIN unit
    \/ /\ getattr(unit, "building") # None
       /\ \E a \in Range(BuildingAttrs) : a \notin DOMAIN unit.building[1]

\* the source units the last implant took
TakenUnits ==
    {heap[source.civs[c].at[i]] :
        c \in DOMAIN source.civs,
        i \in {j \in DOMAIN source.civs[1].at :
                  /\ last.source_start <= j
                  /\ j < last.source_start + UnitImplantCount(UnitCount(source),
                             last.source_start, last.source_end, last.count).implant_count}}

\* C14: an implant that takes a source unit lacking an expected reference field
\* fails: its rewrite of the copy raises a fatal schema-mismatch error instead
\* of processing the unit with the field skipped.
C14_SchemaMismatchFatal ==
    (last.op = "implant" /\ \E u \in TakenUnits : LacksReferenceField(u)) =>
        last.err # None

\* the implant returned its count, and the target holds the copy of a unit that
\* lacks a reference field, its id and its other references rewritten
C14_Witness ==
    /\ last.op = "implant"
    /\ last.err = None
    /\ last.ret >= 2
    /\ last.target_start = BIG_START + UNIT_OFFSET
    /\ \E u \in {heap[target.civs[1].at[BIG_START + UNIT_OFFSET]]} :
          /\ LacksReferenceField(u)
          /\ u.id = BIG_START + UNIT_OFFSET
          /\ u.dead_unit_id = BIG_START + 1 + UNIT_OFFSET

(***************************************************************************)
(* Properties of SpecArgs: the extension of the target's arrays            *)
(***************************************************************************)
\* the slots the step appended to lst that lie outside the footprint
AppendedOutside(lst_before, lst_after, footprint) ==
    {i \in lst_before.len .. (lst_after.len - 1) : i \notin footprint}

\* the arrays of the target
TargetArrays(data) ==
    <<data.unit_headers, data.techs, data.effects>> \o [c \in DOMAIN data.civs |-> data.civs[c]]

C15_Step ==
    /\ DOMAIN target'.civs = DOMAIN target.civs
    /\ \A k \in DOMAIN TargetArrays(target) :
          TargetArrays(target')[k].len >= TargetArrays(target)[k].len
    /\ (last'.op = "implant" /\ last'.err = None) =>
          LET need == last'.target_start + last'.ret
              footprint == last'.target_start .. (need - 1)
          IN /\ target'.unit_headers.len = Max(target.unit_headers.len, need)
             /\ \A i \in AppendedOutside(target.unit_headers, target'.unit_headers, footprint) :
                   _is_blank_header(target'.unit_headers, i)
             /\ \A c \in DOMAIN target.civs :
                   /\ target'.civs[c].len = Max(target.civs[c].len, need)
                   /\ \A i \in AppendedOutside(target.civs[c], target'.civs[c], footprint) :
                         ~Occupied(target'.civs[c], i)
             /\ target'.techs = target.techs
             /\ target'.effects = target.effects
    /\ (last'.op = "implant_techs" /\ last'.err = None) =>
          LET need == last'.target_start + last'.ret
              footprint == last'.target_start .. (need - 1)
          IN /\ target'.techs.len = Max(target.techs.len, need)
             /\ \A i \in AppendedOutside(target.techs, target'.techs, footprint) :
                   ItemAt(target'.techs, i) = ItemAt(target.techs, 0)
             /\ \A e \in last'.written_effects : e < target'.effects.len
             /\ target'.effects.len > target.effects.len =>
                   target'.effects.len - 1 \in last'.written_effects
             /\ \A i \in AppendedOutside(target.effects, target'.effects,
                                         last'.written_effects) :
                   ItemAt(target'.effects, i) = ItemAt(target.effects, 0)
             /\ target'.unit_headers = target.unit_headers
             /\ target'.civs = target.civs

\* C15: an implant with target start T that returns K leaves unit_headers and
\* every civ's units with the length max(old length, T + K): at least T + K,
\* never shorter than before, unchanged when already that long; the slots it
\* appended outside T..T+K-1 are blank headers and None units. A tech implant
\* does the same to techs (and to effects, up to the highest effect written),
\* and the slots it appended without writing them hold a copy of the target's
\* tech 0 (effect 0). No step shortens any array.
C15_SlotExtension == [][C15_Step]_vars

\* a unit implant has padded the arrays of every civ with blank slots below its
\* footprint, and it did not touch the length of the techs
C15_Witness ==
    /\ last.op = "implant"
    /\ last.err = None
    /\ last.target_start = BIG_START + UNIT_OFFSET
    /\ Cardinality(DOMAIN target.civs) = MaxCivs
    /\ \A c \in DOMAIN target.civs :
          /\ target.civs[c].len = BIG_START + UNIT_OFFSET + last.ret
          /\ ~Occupied(target.civs[c], BIG_START + UNIT_OFFSET - 1)
    /\ target.unit_headers.len = BIG_START + UNIT_OFFSET + last.ret

\* a tech implant has padded the techs with copies of tech 0 below its footprint
C15_WitnessTechs ==
    /\ last.op = "implant_techs"
    /\ last.err = None
    /\ last.target_start = TECH_START + TECH_OFFSET
    /\ target.techs.len = TECH_START + TECH_OFFSET + last.ret
    /\ ItemAt(target.techs, TECH_START + TECH_OFFSET - 1) = MkTech("base", 0, -1)
    /\ ItemAt(target.effects, EffectIdOf(TECH_START + TECH_OFFSET) - 1) = MkEffect("base", 0)

(***************************************************************************)
(* Properties of SpecArgs: the civ a copy comes from                       *)
(***************************************************************************)
\* the source civ (1-based) whose record target civ c (1-based) receives under
\* call l: its own when the source has it, else the first one when the fallback
\* is enabled and the source has a civ, else none (0)
OriginCiv(c, l) ==
    IF c <= Len(source.civs) THEN c
    ELSE IF l.copy_extra_civs_from_first /\ Len(source.civs) > 0 THEN 1
    ELSE 0

\* C16: after an implant, for every target civ c and offset i: when source civ
\* c exists, the target slot target_start+i of civ c holds a copy of source civ
\* c's unit at source_start+i; when the target has more civs than the source,
\* it holds a copy of source civ 0's unit at source_start+i, id and references
\* fixed like any copy, or is None when copy_extra_civs_from_first is off or
\* the source has no civ; a None source unit always leaves None.
C16_CivFallback ==
    (last.op = "implant" /\ last.err = None) =>
        \A i \in 0 .. (last.ret - 1), c \in DOMAIN target.civs :
            LET src_idx == last.source_start + i
                tgt_idx == last.target_start + i
                o == OriginCiv(c, last)
            IN IF o = 0 \/ ~Occupied(source.civs[o], src_idx)
               THEN ~Occupied(target.civs[c], tgt_idx)
               ELSE /\ Occupied(target.civs[c], tgt_idx)
                    /\ target.civs[c].at[tgt_idx] \notin StoreRefs(source)
                    /\ heap[target.civs[c].at[tgt_idx]]
                          = ExpectedCopy(heap[source.civs[o].at[src_idx]], tgt_idx, last)

\* the source has one civ, the target two: the second target civ got the copy
\* of the first source civ's unit, under its new id
C16_Witness ==
    /\ last.op = "implant"
    /\ last.err = None
    /\ last.copy_extra_civs_from_first
    /\ Len(source.civs) = 1
    /\ Len(target.civs) = 2
    /\ last.target_start = BIG_START + UNIT_OFFSET
    /\ Occupied(target.civs[2], last.target_start)
    /\ heap[target.civs[2].at[last.target_start]].name = "mod civ 0"
    /\ heap[target.civs[2].at[last.target_start]].id = last.target_start

\* the fallback is off: the second target civ is left None where the first has
\* the copy
C16_WitnessNoFallback ==
    /\ last.op = "implant"
    /\ last.err = None
    /\ ~last.copy_extra_civs_from_first
    /\ Len(source.civs) = 1
    /\ Occupied(target.civs[1], last.target_start)
    /\ ~Occupied(target.civs[2], last.target_start)

\* the second source civ has no unit BIG_START+1: the second target civ is left
\* None, although the first source civ has that unit
C16_WitnessEmptyRecord ==
    /\ last.op = "implant"
    /\ last.err = None
    /\ last.copy_extra_civs_from_first
    /\ Len(source.civs) = 2
    /\ last.source_start = BIG_START + 1
    /\ Occupied(source.civs[1], BIG_START + 1)
    /\ Occupied(target.civs[1], last.target_start)
    /\ ~Occupied(target.civs[2], last.target_start)

\* the source has no civ at all: its length is that of its headers, and every
\* target civ is left None
C16_WitnessNoSourceCiv ==
    /\ last.op = "implant"
    /\ last.err = None
    /\ Len(source.civs) = 0
    /\ last.ret >= 1
    /\ \A c \in DOMAIN target.civs : ~Occupied(target.civs[c], last.target_start)

(***************************************************************************)
(* Properties of SpecArgs: overwriting                                     *)
(***************************************************************************)
\* the slots of lo .. hi that exist in the target and hold a non-blank header,
\* or a unit in some civ
NonEmptySlots(data, lo, hi) ==
    {idx \in lo .. hi :
        \/ (idx < data.unit_headers.len /\ idx \in DOMAIN data.unit_headers.at)
        \/ \E c \in DOMAIN data.civs :
              idx < data.civs[c].len /\ idx \in DOMAIN data.civs[c].at}

\* the count a call with the arguments of l returns
ClampedCount(l) == Min(AskedCount(l), SourceLength(l) - l.source_start)

C17_Step ==
    /\ (last'.op = "implant" /\ ncalls' = ncalls + 1 /\ ~BadArguments(last')) =>
          LET quiet == implant_units_from_dat(source, target, heap, last'.source_start,
                           last'.source_end, last'.count, last'.target_start, FALSE,
                           last'.copy_extra_civs_from_first)
          IN /\ last'.err = None
             /\ last'.ret = ClampedCount(last')
             /\ last'.overwritten =
                   NonEmptySlots(target, last'.target_start,
                                 last'.target_start + last'.ret - 1)
             /\ last'.notice # None <=> last'.overwritten # {}
             /\ quiet.err = None
             /\ quiet.ret = last'.ret
             /\ quiet.overwritten = last'.overwritten
             /\ quiet.notice = None
             /\ quiet.target = target'
             /\ Collect(quiet.heap, source, quiet.target) = heap'
    /\ (last'.op = "implant_techs" /\ ncalls' = ncalls + 1 /\ ~BadArguments(last')
          /\ BadEffectIds(source, last'.source_start, ClampedCount(last')) = {}) =>
          LET quiet == implant_techs_from_dat(source, target, last'.source_start,
                           last'.source_end, last'.count, last'.target_start, FALSE)
          IN /\ last'.err = None
             /\ last'.ret = ClampedCount(last')
             /\ quiet.err = None
             /\ quiet.ret = last'.ret
             /\ quiet.overwritten_techs = last'.overwritten_techs
             /\ quiet.overwritten_effects = last'.overwritten_effects
             /\ ~quiet.notice
             /\ quiet.target = target'

\* C17: an implant with good arguments whose destination range holds non-empty
\* slots completes and returns its count; the overwritten set of a unit
\* implant is exactly the slots of its footprint that held, before the write, a
\* non-blank header or a unit in some civ; and the call with
\* warn_overwrite=False returns the same and leaves the same target (only the
\* notice is not printed). A tech implant completes likewise, with the same
\* target whether warn_overwrite is true or false.
C17_OverwriteNotFatal == [][C17_Step]_vars

\* a unit implant over OVERRIDE_A, whose header is non-blank, and the next slot,
\* whose header is blank and which only the second civ fills, and one empty
\* slot: it returned its count, and the first two are the overwritten ones
C17_Witness ==
    /\ last.op = "implant"
    /\ last.err = None
    /\ last.target_start = OVERRIDE_A
    /\ last.ret >= 3
    /\ last.overwritten = {OVERRIDE_A, OVERRIDE_A + 1}
    /\ last.notice = Some(<<OVERRIDE_A, OVERRIDE_A + 1>>)
    /\ Occupied(target.civs[1], OVERRIDE_A)
    /\ heap[target.civs[1].at[OVERRIDE_A]].name = "mod civ 0"

\* a tech implant over the target's tech TECH_START has completed
C17_WitnessTechs ==
    /\ last.op = "implant_techs"
    /\ last.err = None
    /\ last.target_start = TECH_START
    /\ last.overwritten_techs[1] = <<TECH_START, MkTech("base", TECH_START, 0).name>>
    /\ ItemAt(target.techs, TECH_START).name = MkTech("mod", last.source_start, 0).name

(***************************************************************************)
(* remap_graphic_sound_in_implanted_units                                  *)
(*                                                                         *)
(* The attributes of a unit whose name holds "graphic" or "sound" carry    *)
(* their Python type: <<"int", v>> is the int v, <<"tuple", a, b>> a       *)
(* tuple of two ints.                                                      *)
(***************************************************************************)
IntVal(v) == <<"int", v>>
TupleVal(a, b) == <<"tuple", a, b>>

\* the attribute names of the modelled units with "graphic" or "sound" in them,
\* none of them with "sound_name", "graphic_name" or "file_name"
_is_graphic_or_sound_attr(name) ==
    name \in {"dying_graphic", "standing_graphic", "selection_sound"}

\* do_graphic, do_sound: the interval is given and the offset is not 0
DoMedia(source_start, source_end, offset) ==
    source_start # None /\ source_end # None /\ offset # 0

\* lines 82-88: the new value of one attribute value and what it adds to
\* count_graphic and count_sound
RemapMediaValue(val, graphic_source_start, graphic_source_end, graphic_offset, sound_source_start, sound_source_end, sound_offset) ==
    IF val[1] # "int" THEN [val |-> val, g |-> 0, s |-> 0]
    ELSE IF /\ DoMedia(graphic_source_start, graphic_source_end, graphic_offset)
            /\ graphic_source_start[1] <= val[2] /\ val[2] <= graphic_source_end[1]
         THEN [val |-> IntVal(val[2] + graphic_offset), g |-> 1, s |-> 0]
    ELSE IF /\ DoMedia(sound_source_start, sound_source_end, sound_offset)
            /\ sound_source_start[1] <= val[2] /\ val[2] <= sound_source_end[1]
         THEN [val |-> IntVal(val[2] + sound_offset), g |-> 0, s |-> 1]
    ELSE [val |-> val, g |-> 0, s |-> 0]

\* every unit of every civ, whatever its slot
SweptRefs_all(data, implanted_unit_indices) ==
    UNION {{data.civs[c].at[i] : i \in DOMAIN data.civs[c].at} : c \in DOMAIN data.civs}

\* lines 71-74: the units the loops do not skip: not None, in a slot of
\* implanted_unit_indices
SweptRefs(data, implanted_unit_indices) ==
    UNION {{data.civs[c].at[i] : i \in DOMAIN data.civs[c].at \cap implanted_unit_indices} :
              c \in DOMAIN data.civs}

\* remap_graphic_sound_in_implanted_units(data, implanted_unit_indices,
\* graphic_source_start=, graphic_source_end=, graphic_offset=,
\* sound_source_start=, sound_source_end=, sound_offset=): the heap after the
\* in-place sweep and the pair of counts returned
remap_graphic_sound_in_implanted_units(data, h, implanted_unit_indices, graphic_source_start, graphic_source_end, graphic_offset, sound_source_start, sound_source_end, sound_offset) ==
    IF /\ ~DoMedia(graphic_source_start, graphic_source_end, graphic_offset)
       /\ ~DoMedia(sound_source_start, sound_source_end, sound_offset)
    THEN [heap |-> h, count_graphic |-> 0, count_sound |-> 0]
    ELSE LET swept == SweptRefs(data, implanted_unit_indices)
             new(o, a) == RemapMediaValue(h[o][a], graphic_source_start, graphic_source_end,
                                          graphic_offset, sound_source_start,
                                          sound_source_end, sound_offset)
             visited == {<<o, a>> \in swept \X {"dying_graphic", "standing_graphic",
                                               "selection_sound"} :
                            a \in DOMAIN h[o] /\ _is_graphic_or_sound_attr(a)}
         IN [heap |-> [o \in DOMAIN h |->
                          IF o \in swept
                          THEN [a \in DOMAIN h[o] |->
                                   IF _is_graphic_or_sound_attr(a) THEN new(o, a).val
                                   ELSE h[o][a]]
                          ELSE h[o]],
             count_graphic |-> Cardinality({p \in visited : new(p[1], p[2]).g = 1}),
             count_sound |-> Cardinality({p \in visited : new(p[1], p[2]).s = 1})]

\* apply_remap_to_dat: the offsets are target start - source start, or 0 when a
\* start is not given
apply_remap_to_dat(data, h, implanted_unit_indices, graphic_source_start, graphic_source_end, graphic_target_start, sound_source_start, sound_source_end, sound_target_start) ==
    remap_graphic_sound_in_implanted_units(data, h, implanted_unit_indices,
        graphic_source_start, graphic_source_end,
        IF graphic_target_start # None /\ graphic_source_start # None
        THEN graphic_target_start[1] - graphic_source_start[1] ELSE 0,
        sound_source_start, sound_source_end,
        IF sound_target_start # None /\ sound_source_start # None
        THEN sound_target_start[1] - sound_source_start[1] ELSE 0)

(***************************************************************************)
(* SpecSweep: apply_remap_to_dat on a store whose units refer to graphics  *)
(* and sounds                                                              *)
(***************************************************************************)
\* the first relocated graphic and sound of run_dat_sync
GFX_START == 17601
SND_START == 850
\* the number of relocated graphics, and of relocated sounds
MaxMedia == 2

\* the values the graphic and sound attributes of the units take: the ends of
\* the two relocated intervals, the first value past each, and none
MediaValues ==
    {GFX_START, GFX_START + MaxMedia - 1, GFX_START + MaxMedia,
     SND_START, SND_START + MaxMedia - 1, SND_START + MaxMedia, -1}

\* <<source_start, source_end, target_start>> of a relocation: not configured,
\* configured in place, configured to a new start
MediaConfigs(start) ==
    {<<None, None, None>>, <<Some(start), Some(start + MaxMedia - 1), None>>,
     <<Some(start), Some(start + MaxMedia - 1), Some(start)>>,
     <<Some(start), Some(start + MaxMedia - 1), Some(start + MaxMedia)>>}

SweptIndexSets ==
    {{}, {OVERRIDE_A}, {OVERRIDE_A, OVERRIDE_B, BIG_START + 1},
     {OVERRIDE_A, OVERRIDE_B, BIG_START + UNIT_OFFSET}}

\* a unit with graphic and sound attributes
WithMedia(unit, g, s) ==
    [a \in DOMAIN unit \cup {"dying_graphic", "standing_graphic", "selection_sound"} |->
        IF a = "dying_graphic" THEN IntVal(g)
        ELSE IF a = "selection_sound" THEN IntVal(s)
        ELSE IF a = "standing_graphic" THEN TupleVal(g, GFX_START)
        ELSE unit[a]]

InitSweep ==
    \E g \in MediaValues, s \in MediaValues :
        /\ source = SourceStore(BIG_START + 1, BIG_START + 1, 1, TECH_START + 1,
                                EffectIdOf(TECH_START))
        /\ target = TargetStore(BIG_START + 2, MaxCivs, TECH_START + 1)
        /\ heap = [o \in DOMAIN InitialHeap(source, target, BIG_START) |->
                      WithMedia(InitialHeap(source, target, BIG_START)[o],
                                IF o[3] = OVERRIDE_B THEN s ELSE g,
                                IF o[3] = OVERRIDE_B THEN g ELSE s)]
        /\ last = [op |-> "init"]
        /\ ncalls = 0
        /\ pc = "sweep"
        /\ scenario = NoScenario

\* the unit implants of run_dat_sync, lines 94-103, one call per step
SweepImplants ==
    /\ pc \in {"sweep", "sweep_a", "sweep_b"}
    /\ IF pc = "sweep"
       THEN DoImplant(BIG_START, Some(UnitCount(source) - 1), None,
                      BIG_START + UNIT_OFFSET, TRUE)
       ELSE IF pc = "sweep_a" THEN DoImplant(OVERRIDE_A, None, Some(1), OVERRIDE_A, TRUE)
       ELSE DoImplant(OVERRIDE_B, None, Some(1), OVERRIDE_B, TRUE)
    /\ pc' = IF pc = "sweep" THEN "sweep_a"
             ELSE IF pc = "sweep_a" THEN "sweep_b" ELSE "sweep_finalize"
    /\ UNCHANGED scenario

\* line 112: finalize_unit_id_migration with the map and the slots of the run
SweepFinalize ==
    /\ pc = "sweep_finalize"
    /\ \E r \in {finalize_unit_id_migration(target, heap, SyncUnitIdMap(UnitCount(source)),
                                            SyncImplantedIndices(UnitCount(source)))} :
          /\ heap' = r.heap
          /\ last' = [op |-> "finalize", id_mapping |-> SyncUnitIdMap(UnitCount(source)),
                      implanted_indices |-> SyncImplantedIndices(UnitCount(source)),
                      n_id |-> r.n_id, n_refs |-> r.n_refs]
    /\ pc' = "piped"
    /\ UNCHANGED <<source, target, ncalls>>
    /\ UNCHANGED scenario

\* the call of apply_remap_to_dat at the end of run_dat_sync, or on a store as
\* parsed
Sweep ==
    /\ pc \in {"sweep", "piped"}
    /\ \E implanted_unit_indices \in SweptIndexSets,
          gc \in MediaConfigs(GFX_START), sc \in MediaConfigs(SND_START) :
          \E r \in {apply_remap_to_dat(target, heap, implanted_unit_indices,
                                       gc[1], gc[2], gc[3], sc[1], sc[2], sc[3])} :
             /\ heap' = r.heap
             /\ last' = [op |-> "sweep", implanted_unit_indices |-> implanted_unit_indices,
                         graphic |-> gc, sound |-> sc,
                         count_graphic |-> r.count_graphic, count_sound |-> r.count_sound]
    /\ ncalls' = ncalls + 1
    /\ pc' = "swept"
    /\ UNCHANGED <<source, target>>
    /\ UNCHANGED scenario

NextSweep == SweepImplants \/ SweepFinalize \/ Sweep

SpecSweep == InitSweep /\ [][NextSweep]_vars

(***************************************************************************)
(* Properties of SpecSweep                                                 *)
(***************************************************************************)
\* the relocation <<source_start, source_end, target_start>> moves IDs
Relocating(cfg) == cfg[1] # None /\ cfg[2] # None /\ cfg[3] # None /\ cfg[3] # cfg[1]

\* the value v of a field under the relocation cfg of its own kind
MediaShifted(v, cfg) ==
    IF Relocating(cfg) /\ cfg[1][1] <= v /\ v <= cfg[2][1]
    THEN v + (cfg[3][1] - cfg[1][1]) ELSE v

C18_Step ==
    last'.op = "sweep" =>
        \A c \in DOMAIN target.civs :
            \A i \in DOMAIN target.civs[c].at \cap last'.implanted_unit_indices :
                LET before == heap[target.civs[c].at[i]]
                    after == heap'[target.civs[c].at[i]]
                IN /\ after.dying_graphic
                         = IntVal(MediaShifted(before.dying_graphic[2], last'.graphic))
                   /\ after.selection_sound
                         = IntVal(MediaShifted(before.selection_sound[2], last'.sound))

\* C18: the sweep shifts a graphic field of an implanted unit by the graphic
\* offset exactly when its value is in the relocated graphic interval, and a
\* sound field by the sound offset exactly when its value is in the relocated
\* sound interval: a sound field whose value is in the graphic interval and
\* not in the sound interval keeps its value, and the other way round.
C18_PerKindSweep == [][C18_Step]_vars

\* the graphics are relocated, the sounds are not: the sound field of an
\* implanted unit held a value of the graphic interval and was shifted by the
\* graphic offset
C18_Witness ==
    /\ last.op = "sweep"
    /\ Relocating(last.graphic)
    /\ ~Relocating(last.sound)
    /\ OVERRIDE_A \in last.implanted_unit_indices
    /\ last.count_graphic > 0
    /\ heap[target.civs[1].at[OVERRIDE_A]].selection_sound = IntVal(GFX_START + MaxMedia)
    /\ heap[target.civs[1].at[OVERRIDE_A]].dying_graphic = IntVal(-1)

C19_Step ==
    last'.op = "sweep" =>
        /\ target' = target
        /\ source' = source
        /\ DOMAIN heap' = DOMAIN heap
        /\ \A o \in DOMAIN heap :
              (\A c \in DOMAIN target.civs :
                  \A i \in DOMAIN target.civs[c].at \cap last'.implanted_unit_indices :
                      target.civs[c].at[i] # o)
              => heap'[o] = heap[o]
        /\ (~Relocating(last'.graphic) /\ ~Relocating(last'.sound)) =>
              /\ heap' = heap
              /\ last'.count_graphic = 0
              /\ last'.count_sound = 0

\* C19: remap_graphic_sound_in_implanted_units changes no field of a unit whose
\* slot is not in implanted_unit_indices, in any civ, and changes nothing at
\* all when neither the graphics nor the sounds are relocated with an offset
\* other than 0.
C19_SweepScope == [][C19_Step]_vars

\* the graphics were relocated and only OVERRIDE_A was swept: its graphic field
\* was shifted, and the unit in OVERRIDE_B keeps a value of the relocated
\* interval
C19_Witness ==
    /\ last.op = "sweep"
    /\ Relocating(last.graphic)
    /\ last.implanted_unit_indices = {OVERRIDE_A}
    /\ last.count_graphic > 0
    /\ \A c \in DOMAIN target.civs :
          /\ heap[target.civs[c].at[OVERRIDE_A]].dying_graphic = IntVal(GFX_START + MaxMedia)
          /\ heap[target.civs[c].at[OVERRIDE_B]].selection_sound = IntVal(GFX_START)

(***************************************************************************)
(* build_unit_id_mapping                                                   *)
(***************************************************************************)
\* the map with the relocated range starting one unit late
build_unit_id_mapping_late(data) ==
    (OVERRIDE_A :> OVERRIDE_A) @@ (OVERRIDE_B :> OVERRIDE_B)
    @@ [i \in (BIG_START + 1) .. (UnitCount(data) - 1) |-> i + UNIT_OFFSET]

\* build_unit_id_mapping(old_mod_dat): the entries of the loop over
\* range(2601, n_units), then mapping[46] = 46 and mapping[557] = 557
build_unit_id_mapping(data) ==
    (OVERRIDE_A :> OVERRIDE_A) @@ (OVERRIDE_B :> OVERRIDE_B)
    @@ [i \in BIG_START .. (UnitCount(data) - 1) |-> i + UNIT_OFFSET]

(***************************************************************************)
(* Properties of SpecSync: the map handed to the scenario rewriting        *)
(***************************************************************************)
\* a store that has the length of `data` in common with it, and nothing else
BareStore(data) ==
    [unit_headers |-> [len |-> UnitCount(data), at |-> <<>>], civs |-> <<>>,
     techs |-> [len |-> 0, at |-> <<>>, fill |-> <<>>],
     effects |-> [len |-> 0, at |-> <<>>, fill |-> <<>>]]

\* C20: build_unit_id_mapping of the source maps every old ID of
\* 2601 .. n-1 to old + UNIT_OFFSET, as the map run_dat_sync hands to
\* finalize_unit_id_migration does; besides these it only maps OVERRIDE_A and
\* OVERRIDE_B to themselves; and it is the same for every store of the same
\* length.
C20_DownstreamMap ==
    LET m == build_unit_id_mapping(source)
        n == UnitCount(source)
    IN /\ DOMAIN m = (BIG_START .. (n - 1)) \cup {OVERRIDE_A, OVERRIDE_B}
       /\ \A i \in BIG_START .. (n - 1) : m[i] = i + UNIT_OFFSET
       /\ m[OVERRIDE_A] = OVERRIDE_A
       /\ m[OVERRIDE_B] = OVERRIDE_B
       /\ m = build_unit_id_mapping(BareStore(source))
       /\ last.op = "finalize" =>
             /\ DOMAIN last.id_mapping = BIG_START .. (n - 1)
             /\ \A i \in DOMAIN last.id_mapping : m[i] = last.id_mapping[i]
             /\ \A i \in DOMAIN m \ DOMAIN last.id_mapping : m[i] = i

\* run_dat_sync has relocated units with its map, and the downstream map sends
\* the first and the last relocated ID where the copies are
C20_Witness ==
    /\ last.op = "finalize"
    /\ UnitCount(source) = BIG_START + SyncRelocated
    /\ last.id_mapping[BIG_START] = BIG_START + UNIT_OFFSET
    /\ build_unit_id_mapping(source)[BIG_START + SyncRelocated - 1]
          = BIG_START + SyncRelocated - 1 + UNIT_OFFSET
    /\ heap[target.civs[1].at[build_unit_id_mapping(source)[BIG_START]]].name = "mod civ 0"

(***************************************************************************)
(* Properties of SpecSweep: the source during the whole run                *)
(***************************************************************************)

C21_Step ==
    /\ source' = source
    /\ \A o \in StoreRefs(source) : o \in DOMAIN heap' /\ heap'[o] = heap[o]
    /\ \A c \in DOMAIN target'.civs : \A i \in DOMAIN target'.civs[c].at :
          /\ target'.civs[c].at[i] \notin StoreRefs(source)
          /\ \A d \in DOMAIN target'.civs : \A j \in DOMAIN target'.civs[d].at :
                target'.civs[d].at[j] = target'.civs[c].at[i] => (d = c /\ j = i)

\* C21: no step of the run (the implants, the self-id fix and the global
\* rewrite of finalize_unit_id_migration, the graphic/sound sweep) changes a
\* field of a source unit or the source's lists; no target slot holds a source
\* object, and no two target slots, of the same or of different civs, hold the
\* same object.
C21_SourceReadOnly == [][C21_Step]_vars

\* the whole run is over: units were implanted, also into the civ the source
\* lacks, then finalized and swept, the copy's graphic field was shifted, and
\* the source unit still has the value it was parsed with
C21_Witness ==
    /\ pc = "swept"
    /\ ncalls = 4
    /\ Relocating(last.graphic)
    /\ last.implanted_unit_indices = {OVERRIDE_A, OVERRIDE_B, BIG_START + UNIT_OFFSET}
    /\ \A c \in DOMAIN target.civs :
          /\ heap[target.civs[c].at[BIG_START + UNIT_OFFSET]].name = "mod civ 0"
          /\ heap[target.civs[c].at[BIG_START + UNIT_OFFSET]].dying_graphic
                = IntVal(GFX_START + MaxMedia)
          /\ heap[target.civs[c].at[BIG_START + UNIT_OFFSET]].copy_id
                = BIG_START + UNIT_OFFSET
    /\ heap[source.civs[1].at[BIG_START]].dying_graphic = IntVal(GFX_START)
    /\ heap[source.civs[1].at[BIG_START]].copy_id = BIG_START

(***************************************************************************)
(* Properties of SpecArgs: the required techs of an implanted tech         *)
(***************************************************************************)
\* C22: after a tech implant of source_start .. source_start+K-1 with offset =
\* target_tech_start - source_start, the required_techs of every implanted
\* tech has the length of its source's, and entry by entry holds r + offset
\* where the source holds an r of source_start .. source_start+K-1 and the
\* source's entry everywhere else, -1 included; everything else in the tech
\* except its effect_id is the source's.
C22_RequiredTechs ==
    (last.op = "implant_techs" /\ last.err = None) =>
        \A i \in 0 .. (last.ret - 1) :
            LET offset == last.target_start - last.source_start
                src == ItemAt(source.techs, last.source_start + i)
                tgt == ItemAt(target.techs, last.target_start + i)
            IN /\ Len(tgt.required_techs) = Len(src.required_techs)
               /\ \A k \in 1 .. Len(src.required_techs) :
                     tgt.required_techs[k] =
                        IF /\ last.source_start <= src.required_techs[k]
                           /\ src.required_techs[k] <= last.source_start + last.ret - 1
                        THEN src.required_techs[k] + offset
                        ELSE src.required_techs[k]
               /\ tgt.name = src.name
               /\ tgt.research_time = src.research_time

\* techs TECH_START and TECH_START+1 were implanted TECH_OFFSET higher: the
\* copy of TECH_START requires the copy of its successor, twice, and still the
\* techs outside the range and -1
C22_Witness ==
    /\ last.op = "implant_techs"
    /\ last.err = None
    /\ last.source_start = TECH_START
    /\ last.target_start = TECH_START + TECH_OFFSET
    /\ last.ret = 2
    /\ ItemAt(target.techs, TECH_START + TECH_OFFSET).required_techs
          = <<TECH_START - 1, TECH_START + 1 + TECH_OFFSET, TECH_OVERRIDE,
              TECH_START + 1 + TECH_OFFSET, -1, -1>>

(***************************************************************************)
(* Scenario rewriting (tools/batch_replace_trigger_unit_id.py,             *)
(* tools/batch_replace_map_unit_id.py, tools/batch_replace_trigger_tech_id *)
(* and the two scenario entry points of mod_sync_to_official.py).          *)
(* A scenario is [triggers, units]: triggers is a list of                  *)
(* [effects, conditions], units is a list (one entry per player) of lists  *)
(* of map units.  Effects, conditions and map units are records of their   *)
(* attributes; an attribute the scenario format lacks is absent from the   *)
(* record.  A dict is handed over as the list of its items in insertion    *)
(* order, because the unit loops iterate over unit_mapping.items().        *)
(***************************************************************************)
\* the library helper: -1 is the value of an attribute that is not set
value_is_valid(val) == val # -1

EFFECT_UNIT_TYPE_ATTRS_with_location == <<"object_list_unit_id", "object_list_unit_id_2", "location_object_reference">>

EFFECT_UNIT_TYPE_ATTRS == <<"object_list_unit_id", "object_list_unit_id_2">>

CONDITION_UNIT_TYPE_ATTRS == <<"object_list">>

\* the inner loop: for attr in attrs: if not hasattr: continue; if
\* value_is_valid(val) and val == old_unit_id: setattr; count += 1
RECURSIVE ReplaceAttrs(_, _, _, _, _, _)
ReplaceAttrs(obj, attrs, k, old_unit_id, new_unit_id, count) ==
    IF k > Len(attrs) THEN [obj |-> obj, count |-> count]
    ELSE LET attr == attrs[k]
         IN  IF attr \in DOMAIN obj /\ value_is_valid(obj[attr]) /\ obj[attr] = old_unit_id
             THEN ReplaceAttrs([obj EXCEPT ![attr] = new_unit_id], attrs, k + 1,
                               old_unit_id, new_unit_id, count + 1)
             ELSE ReplaceAttrs(obj, attrs, k + 1, old_unit_id, new_unit_id, count)

\* the outer loop over the effects (or conditions) of one trigger
RECURSIVE ReplaceInObjects(_, _, _, _, _, _)
ReplaceInObjects(objs, attrs, k, old_unit_id, new_unit_id, count) ==
    IF k > Len(objs) THEN [objs |-> objs, count |-> count]
    ELSE LET r == ReplaceAttrs(objs[k], attrs, 1, old_unit_id, new_unit_id, 0)
         IN  ReplaceInObjects([objs EXCEPT ![k] = r.obj], attrs, k + 1,
                              old_unit_id, new_unit_id, count + r.count)

_replace_unit_type_in_effects(effects, old_unit_id, new_unit_id) ==
    ReplaceInObjects(effects, EFFECT_UNIT_TYPE_ATTRS, 1, old_unit_id, new_unit_id, 0)

_replace_unit_type_in_conditions(conditions, old_unit_id, new_unit_id) ==
    ReplaceInObjects(conditions, CONDITION_UNIT_TYPE_ATTRS, 1, old_unit_id, new_unit_id, 0)

\* the loop over trigger_manager.triggers
RECURSIVE TriggerLoop(_, _, _, _, _, _, _)
TriggerLoop(triggers, k, old_unit_id, new_unit_id, replace_in_conditions, total_effect, total_condition) ==
    IF k > Len(triggers)
    THEN [triggers |-> triggers, total_effect |-> total_effect, total_condition |-> total_condition]
    ELSE LET e == _replace_unit_type_in_effects(triggers[k].effects, old_unit_id, new_unit_id)
             c == IF replace_in_conditions
                  THEN _replace_unit_type_in_conditions(triggers[k].conditions, old_unit_id, new_unit_id)
                  ELSE [objs |-> triggers[k].conditions, count |-> 0]
         IN  TriggerLoop([triggers EXCEPT ![k] = [effects |-> e.objs, conditions |-> c.objs]],
                         k + 1, old_unit_id, new_unit_id, replace_in_conditions,
                         total_effect + e.count, total_condition + c.count)

\* returns (total_effect, total_condition); the scenario is changed in place
apply_unit_id_in_scenario(scn, old_unit_id, new_unit_id, replace_in_conditions) ==
    LET r == TriggerLoop(scn.triggers, 1, old_unit_id, new_unit_id, replace_in_conditions, 0, 0)
    IN  [scenario |-> [scn EXCEPT !.triggers = r.triggers],
         total_effect |-> r.total_effect, total_condition |-> r.total_condition]

\* for player_units in unit_manager.units: for unit in player_units:
\*     if unit.unit_const == old_unit_id: unit.unit_const = new_unit_id; replaced += 1
apply_map_unit_id_in_scenario(scn, old_unit_id, new_unit_id) ==
    LET hit == {pu \in UNION {{<<p, u>> : u \in DOMAIN scn.units[p]} : p \in DOMAIN scn.units} :
                   scn.units[pu[1]][pu[2]].unit_const = old_unit_id}
    IN  [scenario |-> [scn EXCEPT !.units =
                          [p \in DOMAIN scn.units |->
                             [u \in DOMAIN scn.units[p] |->
                                IF <<p, u>> \in hit
                                THEN [scn.units[p][u] EXCEPT !.unit_const = new_unit_id]
                                ELSE scn.units[p][u]]]],
         replaced |-> Cardinality(hit)]

EFFECT_TECH_ATTRS == <<"technology", "force_research_technology", "local_technology">>

CONDITION_TECH_ATTRS == <<"technology", "local_technology">>

\* getattr(obj, attr, None); a value that is not valid or not a key leaves
\* the object alone and returns None; otherwise the attribute is set to
\* mapping[val] and the old value is returned
_get_tech_val_and_set(obj, attr, mapping) ==
    IF attr \notin DOMAIN obj THEN [obj |-> obj, ret |-> None]
    ELSE IF ~value_is_valid(obj[attr]) \/ obj[attr] \notin DOMAIN mapping
         THEN [obj |-> obj, ret |-> None]
         ELSE [obj |-> [obj EXCEPT ![attr] = mapping[obj[attr]]], ret |-> Some(obj[attr])]

RECURSIVE TechAttrs(_, _, _, _, _)
TechAttrs(obj, attrs, k, mapping, total) ==
    IF k > Len(attrs) THEN [obj |-> obj, count |-> total]
    ELSE LET r == _get_tech_val_and_set(obj, attrs[k], mapping)
         IN  TechAttrs(r.obj, attrs, k + 1, mapping, IF r.ret # None THEN total + 1 ELSE total)

RECURSIVE TechObjects(_, _, _, _, _)
TechObjects(objs, attrs, k, mapping, total) ==
    IF k > Len(objs) THEN [objs |-> objs, count |-> total]
    ELSE LET r == TechAttrs(objs[k], attrs, 1, mapping, 0)
         IN  TechObjects([objs EXCEPT ![k] = r.obj], attrs, k + 1, mapping, total + r.count)

_apply_tech_mapping_in_effects(effects, mapping) == TechObjects(effects, EFFECT_TECH_ATTRS, 1, mapping, 0)

_apply_tech_mapping_in_conditions(conditions, mapping) == TechObjects(conditions, CONDITION_TECH_ATTRS, 1, mapping, 0)

RECURSIVE TechTriggerLoop(_, _, _, _, _)
TechTriggerLoop(triggers, k, mapping, total_effect, total_condition) ==
    IF k > Len(triggers)
    THEN [triggers |-> triggers, total_effect |-> total_effect, total_condition |-> total_condition]
    ELSE LET e == _apply_tech_mapping_in_effects(triggers[k].effects, mapping)
             c == _apply_tech_mapping_in_conditions(triggers[k].conditions, mapping)
         IN  TechTriggerLoop([triggers EXCEPT ![k] = [effects |-> e.objs, conditions |-> c.objs]],
                             k + 1, mapping, total_effect + e.count, total_condition + c.count)

\* returns (total_effect, total_condition, detail); detail only breaks the
\* two totals down by old ID for the printout
apply_tech_mapping_in_scenario(scn, tech_id_mapping) ==
    LET r == TechTriggerLoop(scn.triggers, 1, tech_id_mapping, 0, 0)
    IN  [scenario |-> [scn EXCEPT !.triggers = r.triggers],
         total_effect |-> r.total_effect, total_condition |-> r.total_condition]

\* build_unit_id_mapping(old_mod_dat).items(): the keys in the order of
\* their insertion, range(2601, n_units) first, then 46 and 557
build_unit_id_mapping_items(data) ==
    [k \in 1 .. Max(0, UnitCount(data) - BIG_START) |-> <<BIG_START + k - 1, BIG_START + k - 1 + UNIT_OFFSET>>]
    \o << <<OVERRIDE_A, OVERRIDE_A>>, <<OVERRIDE_B, OVERRIDE_B>> >>

build_tech_id_mapping == [i \in TECH_START .. TECH_END |-> i + TECH_OFFSET]

\* one pass of the loop body: if old_id == new_id: continue; the trigger
\* replacement, then the map replacement, and a report line when any of
\* the three counts is positive
UnitMappingStep(st, item) ==
    LET old_id == item[1]
        new_id == item[2]
        t == apply_unit_id_in_scenario(st.scenario, old_id, new_id, TRUE)
        m == apply_map_unit_id_in_scenario(t.scenario, old_id, new_id)
        line == <<old_id, new_id, t.total_effect, t.total_condition, m.replaced>>
    IN  IF old_id = new_id THEN st
        ELSE [scenario |-> m.scenario,
              report |-> IF t.total_effect > 0 \/ t.total_condition > 0 \/ m.replaced > 0
                         THEN Append(st.report, line) ELSE st.report]

\* for old_id, new_id in unit_mapping.items(): the passes lo .. hi of the
\* loop, one after the other in the order of the items (the range is
\* halved only to keep the evaluation shallow)
RECURSIVE UnitMappingLoop(_, _, _, _)
UnitMappingLoop(st, items, lo, hi) ==
    IF lo > hi THEN st
    ELSE IF lo = hi THEN UnitMappingStep(st, items[lo])
    ELSE LET mid == (lo + hi) \div 2
             first == UnitMappingLoop(st, items, lo, mid)
         IN  Now(first, UnitMappingLoop(first, items, mid + 1, hi))

apply_scenario_unit_mapping(scn, unit_mapping) ==
    UnitMappingLoop([scenario |-> scn, report |-> <<>>], unit_mapping, 1, Len(unit_mapping))

apply_scenario_mappings(scn, unit_mapping, tech_mapping) ==
    LET u == UnitMappingLoop([scenario |-> scn, report |-> <<>>], unit_mapping, 1, Len(unit_mapping))
        t == apply_tech_mapping_in_scenario(u.scenario, tech_mapping)
    IN  [scenario |-> t.scenario, report |-> u.report,
         tech_counts |-> <<t.total_effect, t.total_condition>>]

(***************************************************************************)
(* SpecScenario: a scenario is loaded and rewritten.  The entry points of  *)
(* mod_sync_to_official.py parse the scenario and apply the unit map of    *)
(* the source data file (and the tech map); the in-memory replacements of  *)
(* the tools may be applied to a loaded scenario any number of times.      *)
(***************************************************************************)
MaxScenarioCalls == 2

\* lengths of the source unit list: one relocated unit, MaxRelocated of
\* them, and a list long enough that relocated IDs are old IDs again
ScenarioSourceLengths == {BIG_START + 1, BIG_START + MaxRelocated, BIG_START + UNIT_OFFSET + 2}

\* values of a unit-type attribute / instance attribute in the scenario
ScenarioValues == {-1, OVERRIDE_A, BIG_START, BIG_START + 1, BIG_START + UNIT_OFFSET}

\* IDs handed to the single replacements
ScenarioOldIds == {-1, BIG_START, BIG_START + UNIT_OFFSET}
ScenarioNewIds == {BIG_START, BIG_START + UNIT_OFFSET, BIG_START + 2 * UNIT_OFFSET}

MkTriggerEffect(unit_id, unit_id_2, instance, technology) ==
    [object_list_unit_id |-> unit_id, object_list_unit_id_2 |-> unit_id_2,
     location_object_reference |-> instance, selected_object_ids |-> <<instance, unit_id>>,
     technology |-> technology, force_research_technology |-> -1]

MkCondition(object_list, instance, technology) ==
    [object_list |-> object_list, unit_object |-> instance, technology |-> technology]

MkMapUnit(unit_const, reference_id) == [unit_const |-> unit_const, reference_id |-> reference_id]

\* two triggers and two players; every value occurs as a unit type and as
\* the ID of a unit instance
MkScenario(a, b) ==
    [triggers |->
        << [effects |-> << MkTriggerEffect(a, b, a, TECH_START), MkTriggerEffect(b, -1, b, -1) >>,
            conditions |-> << MkCondition(a, b, TECH_OVERRIDE) >>],
           [effects |-> << MkTriggerEffect(-1, a, b, TECH_START + TECH_OFFSET) >>,
            conditions |-> << MkCondition(b, a, TECH_END), MkCondition(-1, -1, -1) >>] >>,
     units |-> << << MkMapUnit(a, b), MkMapUnit(b, a) >>, << MkMapUnit(a, a) >> >>]

ScenarioSource(n) ==
    [unit_headers |-> [len |-> n, at |-> <<>>], civs |-> <<>>,
     techs |-> [len |-> 0, at |-> <<>>, fill |-> <<>>],
     effects |-> [len |-> 0, at |-> <<>>, fill |-> <<>>]]

InitScenario ==
    /\ \E n \in ScenarioSourceLengths : source = ScenarioSource(n)
    /\ target = ScenarioSource(0)
    /\ heap = <<>>
    /\ \E a \in ScenarioValues, b \in ScenarioValues : scenario = MkScenario(a, b)
    /\ last = [op |-> "loaded"]
    /\ ncalls = 0
    /\ pc = "scenario"

\* apply_unit_id_in_scenario on the loaded scenario
ScenarioReplaceUnit ==
    /\ pc = "scenario"
    /\ ncalls < MaxScenarioCalls
    /\ \E old_unit_id \in ScenarioOldIds, new_unit_id \in ScenarioNewIds, replace_in_conditions \in BOOLEAN :
          LET r == apply_unit_id_in_scenario(scenario, old_unit_id, new_unit_id, replace_in_conditions)
          IN  /\ scenario' = r.scenario
              /\ last' = [op |-> "apply_unit_id_in_scenario", before |-> scenario,
                          old_unit_id |-> old_unit_id, new_unit_id |-> new_unit_id,
                          replace_in_conditions |-> replace_in_conditions,
                          ret |-> <<r.total_effect, r.total_condition>>]
    /\ ncalls' = ncalls + 1
    /\ UNCHANGED <<source, target, heap, pc>>

\* apply_map_unit_id_in_scenario on the loaded scenario
ScenarioReplaceMapUnit ==
    /\ pc = "scenario"
    /\ ncalls < MaxScenarioCalls
    /\ \E old_unit_id \in ScenarioOldIds, new_unit_id \in ScenarioNewIds :
          LET r == apply_map_unit_id_in_scenario(scenario, old_unit_id, new_unit_id)
          IN  /\ scenario' = r.scenario
              /\ last' = [op |-> "apply_map_unit_id_in_scenario", before |-> scenario,
                          old_unit_id |-> old_unit_id, new_unit_id |-> new_unit_id,
                          ret |-> r.replaced]
    /\ ncalls' = ncalls + 1
    /\ UNCHANGED <<source, target, heap, pc>>

\* apply_scenario_unit_mapping(path, out, build_unit_id_mapping(source)):
\* parse, rewrite, write
ScenarioUnitMapping ==
    /\ pc = "scenario"
    /\ ncalls = 0
    /\ LET r == apply_scenario_unit_mapping(scenario, build_unit_id_mapping_items(source))
       IN  /\ scenario' = r.scenario
           /\ last' = [op |-> "apply_scenario_unit_mapping", before |-> scenario, ret |-> r.report]
    /\ ncalls' = ncalls + 1
    /\ pc' = "written"
    /\ UNCHANGED <<source, target, heap>>

\* apply_scenario_mappings(path, out, unit_map, tech_map) of the main flow
ScenarioMappings ==
    /\ pc = "scenario"
    /\ ncalls = 0
    /\ LET r == apply_scenario_mappings(scenario, build_unit_id_mapping_items(source), build_tech_id_mapping)
       IN  /\ scenario' = r.scenario
           /\ last' = [op |-> "apply_scenario_mappings", before |-> scenario,
                       ret |-> <<r.report, r.tech_counts>>]
    /\ ncalls' = ncalls + 1
    /\ pc' = "written"
    /\ UNCHANGED <<source, target, heap>>

NextScenario == ScenarioReplaceUnit \/ ScenarioReplaceMapUnit \/ ScenarioUnitMapping \/ ScenarioMappings

SpecScenario == InitScenario /\ [][NextScenario]_vars

(***************************************************************************)
(* Properties of SpecScenario                                              *)
(***************************************************************************)
\* the attributes of the effects and conditions of a scenario, each named
\* by its kind, trigger, position and attribute
EffectSites(scn) ==
    UNION {UNION {{<<"effect", t, i, a>> : a \in DOMAIN scn.triggers[t].effects[i]} :
                     i \in DOMAIN scn.triggers[t].effects} : t \in DOMAIN scn.triggers}

ConditionSites(scn) ==
    UNION {UNION {{<<"condition", t, i, a>> : a \in DOMAIN scn.triggers[t].conditions[i]} :
                     i \in DOMAIN scn.triggers[t].conditions} : t \in DOMAIN scn.triggers}

SiteValue(scn, s) ==
    IF s[1] = "effect" THEN scn.triggers[s[2]].effects[s[3]][s[4]]
    ELSE scn.triggers[s[2]].conditions[s[3]][s[4]]

UnitTypeSite(s) ==
    \/ s[1] = "effect" /\ s[4] \in {"object_list_unit_id", "object_list_unit_id_2"}
    \/ s[1] = "condition" /\ s[4] = "object_list"

InstanceSite(s) == s[4] \in {"location_object_reference", "selected_object_ids", "unit_object"}

ChangedSites(before, after) ==
    {s \in EffectSites(before) \cup ConditionSites(before) : SiteValue(after, s) # SiteValue(before, s)}

\* C23: apply_unit_id_in_scenario(scenario, old_unit_id, new_unit_id)
\* changes only unit-type attributes (object_list_unit_id and
\* object_list_unit_id_2 of effects, object_list of conditions) that held
\* old_unit_id, and sets them to new_unit_id; the attributes naming unit
\* instances keep their value even when it equals old_unit_id, the map
\* units are left alone, every unit-type attribute that held a set
\* old_unit_id is replaced (conditions when replace_in_conditions), and
\* the two returned counts are the numbers of effect and condition
\* attributes changed
C23_OnlyUnitTypeAttrs ==
    last.op = "apply_unit_id_in_scenario" =>
        LET before == last.before
            changed == ChangedSites(before, scenario)
        IN  /\ EffectSites(scenario) = EffectSites(before)
            /\ ConditionSites(scenario) = ConditionSites(before)
            /\ scenario.units = before.units
            /\ \A s \in changed :
                  /\ UnitTypeSite(s)
                  /\ SiteValue(before, s) = last.old_unit_id
                  /\ SiteValue(scenario, s) = last.new_unit_id
            /\ \A s \in EffectSites(before) \cup ConditionSites(before) :
                  InstanceSite(s) => SiteValue(scenario, s) = SiteValue(before, s)
            /\ \A s \in EffectSites(before) \cup ConditionSites(before) :
                  /\ UnitTypeSite(s)
                  /\ s[1] = "condition" => last.replace_in_conditions
                  /\ last.old_unit_id # -1
                  /\ SiteValue(before, s) = last.old_unit_id
                  => SiteValue(scenario, s) = last.new_unit_id
            /\ last.old_unit_id # last.new_unit_id =>
                  /\ last.ret[1] = Cardinality({s \in changed : s[1] = "effect"})
                  /\ last.ret[2] = Cardinality({s \in changed : s[1] = "condition"})

\* a replacement of 2601 by 3201 that changed effect and condition unit
\* types and met the same value in attributes naming unit instances
C23_Witness ==
    /\ last.op = "apply_unit_id_in_scenario"
    /\ last.old_unit_id = BIG_START
    /\ last.new_unit_id = BIG_START + UNIT_OFFSET
    /\ last.ret[1] >= 2
    /\ last.ret[2] >= 1
    /\ last.before.triggers[1].effects[1].object_list_unit_id = BIG_START
    /\ last.before.triggers[1].effects[1].location_object_reference = BIG_START
    /\ last.before.triggers[2].conditions[1].unit_object = BIG_START
    /\ scenario.triggers[1].effects[1].object_list_unit_id = BIG_START + UNIT_OFFSET
    /\ scenario.triggers[1].effects[1].location_object_reference = BIG_START
    /\ scenario.triggers[1].effects[1].selected_object_ids = <<BIG_START, BIG_START>>
    /\ scenario.triggers[2].conditions[1].unit_object = BIG_START

\* the simultaneous substitution of a mapping
Substituted(mapping, v) == IF v \in DOMAIN mapping THEN mapping[v] ELSE v

\* C26: after apply_scenario_unit_mapping / apply_scenario_mappings with
\* the mapping M, every trigger unit-type attribute and every map
\* unit_const that held a key v of M holds M[v] and every other one is
\* unchanged, also when some M[v] is itself a key of M
C26_SimultaneousSubstitution ==
    last.op \in {"apply_scenario_unit_mapping", "apply_scenario_mappings"} =>
        LET M == build_unit_id_mapping(source)
            before == last.before
        IN  /\ \A s \in EffectSites(before) \cup ConditionSites(before) :
                  UnitTypeSite(s) => SiteValue(scenario, s) = Substituted(M, SiteValue(before, s))
            /\ \A p \in DOMAIN before.units : \A u \in DOMAIN before.units[p] :
                  scenario.units[p][u].unit_const = Substituted(M, before.units[p][u].unit_const)

\* the source has more than 2601 + UNIT_OFFSET units, the scenario held
\* the unit type 2601, and the attribute and the map unit end at
\* 2601 + 2 * UNIT_OFFSET: the pair 2601 -> 3201 was applied first and the
\* pair 3201 -> 3801 then met its result
C26_Witness ==
    /\ last.op = "apply_scenario_mappings"
    /\ UnitCount(source) > BIG_START + UNIT_OFFSET
    /\ build_unit_id_mapping(source)[BIG_START] = BIG_START + UNIT_OFFSET
    /\ last.before.triggers[1].effects[1].object_list_unit_id = BIG_START
    /\ last.before.units[1][1].unit_const = BIG_START
    /\ scenario.triggers[1].effects[1].object_list_unit_id = BIG_START + 2 * UNIT_OFFSET
    /\ scenario.units[1][1].unit_const = BIG_START + 2 * UNIT_OFFSET
    /\ last.before.triggers[1].effects[1].technology = TECH_START
    /\ scenario.triggers[1].effects[1].technology = TECH_START + TECH_OFFSET
    /\ scenario.triggers[2].effects[1].technology = TECH_START + TECH_OFFSET

(***************************************************************************)
(* tools/dat_shift_units.py: shift_units_in_dat                            *)
(***************************************************************************)
\* list(lst[a:b]) for 0 <= a, 0 <= b: the bounds are clamped to len(lst)
Slice(lst, a, b) ==
    LET lo == Min(a, lst.len)
        hi == Max(lo, Min(b, lst.len))
    IN  [len |-> hi - lo,
         at |-> [i \in {j - lo : j \in {k \in DOMAIN lst.at : lo <= k /\ k < hi}} |-> lst.at[i + lo]]]

\* lst[a:b] = new for 0 <= a, 0 <= b: the clamped slice is taken out and
\* the items of `new` are put in its place, whatever their number
SliceAssign(lst, a, b, new) ==
    LET lo == Min(a, lst.len)
        hi == Max(lo, Min(b, lst.len))
        head == {j \in DOMAIN lst.at : j < lo}
        mid == {lo + j : j \in DOMAIN new.at}
        tail == {j - (hi - lo) + new.len : j \in {k \in DOMAIN lst.at : k >= hi}}
    IN  [len |-> lst.len - (hi - lo) + new.len,
         at |-> [i \in head \cup mid \cup tail |->
                    IF i < lo THEN lst.at[i]
                    ELSE IF i < lo + new.len THEN new.at[i - lo]
                    ELSE lst.at[i + (hi - lo) - new.len]]]

\* [blank] * n
Blanks(n) == [len |-> n, at |-> <<>>]

\* steps 1) and 2), and the body of step 3): extend to new_start + count,
\* save lst[start_id : start_id + count], blank lst[start_id : start_id +
\* fill_len] with fill_len = offset, put the saved block at new_start
ShiftList(lst, start_id, offset, count) ==
    LET ext == _ensure_length(lst, start_id + offset + count)
        saved == Slice(ext, start_id, start_id + count)
        blanked == SliceAssign(ext, start_id, start_id + offset, Blanks(offset))
    IN  SliceAssign(_ensure_length(blanked, start_id + offset + count),
                    start_id + offset, start_id + offset + count, saved)

\* shift_units_in_dat(dat_path, output_path, start_id, offset, count): the
\* parsed data, and what is saved and returned
shift_units_in_dat(data, start_id, offset, count) ==
    LET n_units_total == data.unit_headers.len
        cnt == IF count = None THEN n_units_total - start_id
               ELSE Min(count[1], n_units_total - start_id)
    IN  IF start_id >= n_units_total
        THEN [err |-> Some("start_id beyond the units"), ret |-> 0, data |-> data]
        ELSE [err |-> None, ret |-> cnt,
              data |-> [data EXCEPT
                          !.unit_headers = ShiftList(@, start_id, offset, cnt),
                          !.civs = [c \in DOMAIN @ |-> ShiftList(@[c], start_id, offset, cnt)]]]

(***************************************************************************)
(* SpecShift: one data file is parsed, shifted and saved                   *)
(***************************************************************************)
NoStore == ScenarioSource(0)

\* lengths of the unit list of the data file
ShiftLengths == {BIG_START + MaxRelocated, BIG_START + UNIT_OFFSET + 1}

\* <<start_id, offset, count>>
ShiftArgs(n) ==
    {OVERRIDE_A, BIG_START, BIG_START + 1, n - 1, n}
    \X {0, 1, 2, UNIT_OFFSET}
    \X {None, Some(1), Some(2), Some(n)}

InitShift ==
    /\ source = NoStore
    /\ \E n \in ShiftLengths, n_civs \in 1 .. MaxCivs : target = TargetStore(n, n_civs, TECH_START + 1)
    /\ heap = InitialHeap(source, target, BIG_START)
    /\ last = [op |-> "parsed"]
    /\ ncalls = 0
    /\ pc = "shift"
    /\ scenario = NoScenario

ShiftUnits ==
    /\ pc = "shift"
    /\ \E a \in ShiftArgs(target.unit_headers.len) :
          LET r == shift_units_in_dat(target, a[1], a[2], a[3])
          IN  /\ target' = r.data
              /\ last' = [op |-> "shift_units_in_dat", before |-> target,
                          start_id |-> a[1], offset |-> a[2], count |-> a[3],
                          err |-> r.err, ret |-> r.ret]
    /\ ncalls' = ncalls + 1
    /\ pc' = IF last'.err = None THEN "saved" ELSE "raised"
    /\ UNCHANGED <<source, heap, scenario>>

NextShift == ShiftUnits

SpecShift == InitShift /\ [][NextShift]_vars

(***************************************************************************)
(* Properties of SpecShift                                                 *)
(***************************************************************************)
\* the header array and every civ's unit list of a data file
UnitArrays(data) == <<data.unit_headers>> \o data.civs

\* C24: shift_units_in_dat(start_id, offset, count), for a count within
\* the remaining units and an offset >= 0, puts the record of slot
\* start_id + i into slot start_id + offset + i for every i in [0, count),
\* in the header array and in every civ; the original slots the block has
\* left are blank; every unit outside [start_id, start_id + count) is
\* still in its slot
C24_BlockShift ==
    last.op = "shift_units_in_dat" /\ last.err = None =>
        LET s == last.start_id
            o == last.offset
            n == last.ret
        IN  \A k \in DOMAIN UnitArrays(target) :
                LET old == UnitArrays(last.before)[k]
                    new == UnitArrays(target)[k]
                IN  /\ \A j \in DOMAIN old.at :
                          s <= j /\ j < s + n => Occupied(new, j + o) /\ new.at[j + o] = old.at[j]
                    /\ \A j \in DOMAIN new.at :
                          s + o <= j /\ j < s + o + n => Occupied(old, j - o)
                    /\ \A j \in DOMAIN new.at : ~(s <= j /\ j < s + n /\ ~(s + o <= j))
                    /\ \A j \in DOMAIN old.at :
                          ~(s <= j /\ j < s + n) => Occupied(new, j) /\ new.at[j] = old.at[j]

\* one unit is moved from 46 to the free slot 48, and the unit the second
\* civ had in slot 47, outside the block, is gone
C24_Witness ==
    /\ last.op = "shift_units_in_dat"
    /\ last.err = None
    /\ last.start_id = OVERRIDE_A
    /\ last.offset = 2
    /\ last.ret = 1
    /\ Len(target.civs) = 2
    /\ ~Occupied(last.before.civs[2], OVERRIDE_A + 2)
    /\ Occupied(last.before.civs[2], OVERRIDE_A + 1)
    /\ target.civs[2].at[OVERRIDE_A + 2] = last.before.civs[2].at[OVERRIDE_A]
    /\ ~Occupied(target.civs[2], OVERRIDE_A + 1)
    /\ ~Occupied(target.civs[2], OVERRIDE_A)

(***************************************************************************)
(* SpecPipeline: the unit part of run_dat_sync (lines 93-112) for sources  *)
(* of any length, followed by one more call of                             *)
(* remap_unit_copy_base_ids_global with the same map                       *)
(***************************************************************************)
\* lengths of the source unit list: nothing to relocate, one unit,
\* MaxRelocated units, UNIT_OFFSET units, and more than UNIT_OFFSET units
PipelineLengths ==
    {BIG_START, BIG_START + 1, BIG_START + MaxRelocated, BIG_START + UNIT_OFFSET,
     BIG_START + UNIT_OFFSET + 2}

\* what the units of the source refer to
PipelineProbeValues == {BIG_START, BIG_START + 1, FOREIGN}

InitPipeline ==
    \E n_civs \in 1 .. MaxCivs, v \in PipelineProbeValues, n_units \in PipelineLengths :
        /\ source = SourceStore(n_units, n_units, n_civs, TECH_END + 1, EffectIdOf(TECH_END))
        /\ target = TargetStore(BIG_START + 2, MaxCivs, TECH_START + 1)
        /\ heap = InitialHeap(source, target, v)
        /\ last = [op |-> "init"]
        /\ ncalls = 0
        /\ pc = "sync_big"
        /\ scenario = NoScenario

\* remap_unit_copy_base_ids_global(work_data, _unit_id_map) once more
PipelineGlobalAgain ==
    /\ pc = "sync_check"
    /\ \E r \in {remap_unit_copy_base_ids_global(target, heap, SyncUnitIdMap(UnitCount(source)))} :
          /\ heap' = r.heap
          /\ last' = [op |-> "global_again", id_mapping |-> SyncUnitIdMap(UnitCount(source)),
                      n_refs |-> r.n]
    /\ pc' = "global_again"
    /\ UNCHANGED <<source, target, ncalls, scenario>>

NextPipeline ==
    \/ SyncBig
    \/ SyncOverrideA
    \/ SyncOverrideB
    \/ SyncFinalize
    \/ PipelineGlobalAgain

SpecPipeline == InitPipeline /\ [][NextPipeline]_vars

(***************************************************************************)
(* Properties of SpecPipeline                                              *)
(***************************************************************************)
\* the reference fields of the copy in slot o + UNIT_OFFSET of civ c hold
\* o' + UNIT_OFFSET wherever the source unit of slot o held an old ID o'
ShiftedOnce(c, o) ==
    LET su == SourceUnit(source, c - 1, o, TRUE)
    IN  su # None =>
            LET srefs == _iter_unit_id_refs_for_check(heap[su[1]])
                trefs == _iter_unit_id_refs_for_check(heap[target.civs[c].at[o + UNIT_OFFSET]])
            IN  /\ Len(trefs) = Len(srefs)
                /\ \A k \in DOMAIN srefs :
                      /\ trefs[k][1] = srefs[k][1]
                      /\ srefs[k][2] \in MigratedIds(UnitCount(source)) =>
                            trefs[k][2] = srefs[k][2] + UNIT_OFFSET

\* C25: for every source length n, after the implants of run_dat_sync and
\* the global rewrite with {i -> i + UNIT_OFFSET : i in [2601, n)}, every
\* reference field of a relocated unit that held an old ID o of [2601, n)
\* in the source holds o + UNIT_OFFSET, and one more global pass with the
\* same map changes nothing
C25_NoDoubleShift ==
    /\ pc = "sync_check" =>
          \A c \in DOMAIN target.civs : \A o \in MigratedIds(UnitCount(source)) : ShiftedOnce(c, o)
    /\ pc = "global_again" => last.n_refs = 0

\* the source has 3203 units; its unit 2601 refers to itself, the copy in
\* slot 3201 was rewritten to 3201 by the implant and to 3801 by the
\* global pass
C25_Witness ==
    /\ pc = "sync_check"
    /\ UnitCount(source) = BIG_START + UNIT_OFFSET + 2
    /\ heap[source.civs[1].at[BIG_START]].copy_id = BIG_START
    /\ heap[target.civs[1].at[BIG_START + UNIT_OFFSET]].id = BIG_START + UNIT_OFFSET
    /\ heap[target.civs[1].at[BIG_START + UNIT_OFFSET]].copy_id = BIG_START + 2 * UNIT_OFFSET

(***************************************************************************)
(* Properties of SpecArgs: a call that raises                              *)
(***************************************************************************)
C27_Step ==
    (last'.op \in ImplantOps /\ last'.err # None) =>
        /\ target' = target
        /\ heap' = heap
        /\ source' = source

\* C27: whenever implant_units_from_dat or implant_techs_from_dat raises
\* for a bad start, end or count (or, for techs, for an effect_id outside
\* the source's effects), the target store is what it was before the call:
\* no list was extended, no slot and no unit assigned
C27_RaiseBeforeMutation == [][C27_Step]_vars

\* a tech implant over a valid range has raised for the effect_id of one
\* of its techs, and the target is the store the call was given
C27_Witness ==
    /\ last.op = "implant_techs"
    /\ last.err = Some("effect_id out of range")
    /\ last.source_start = TECH_START
    /\ last.target_start = TECH_START + TECH_OFFSET
    /\ target = TargetStore(BIG_START + 2, MaxCivs, TECH_START + 1)
    /\ target.techs.len < TECH_START + TECH_OFFSET

\* a unit implant has raised for a source_end beyond the source, and the
\* target is the store the call was given
C27_WitnessUnits ==
    /\ last.op = "implant"
    /\ last.err # None
    /\ last.source_end # None
    /\ last.source_end[1] >= UnitCount(source)
    /\ last.source_start < UnitCount(source)
    /\ last.target_start = BIG_START + UNIT_OFFSET
    /\ target = TargetStore(BIG_START + 2, MaxCivs, TECH_START + 1)

(***************************************************************************)
(* SpecOrder: implant_units_from_dat is called several times on one target *)
(* from one source; the same calls in the opposite order on the same       *)
(* target are kept beside the result for comparison                        *)
(***************************************************************************)
\* the three unit implants of run_dat_sync, lines 94-103, for a source of n units
SyncImplantArgs(n_units) ==
    (IF n_units > BIG_START
     THEN << <<BIG_START, Some(n_units - 1), None, BIG_START + UNIT_OFFSET, TRUE>> >>
     ELSE <<>>)
    \o << <<OVERRIDE_A, None, Some(1), OVERRIDE_A, TRUE>>,
          <<OVERRIDE_B, None, Some(1), OVERRIDE_B, TRUE>> >>

\* the argument tuples of the calls that are paired
OrderArgs == ImplantArgs \cup Range(SyncImplantArgs(BIG_START + MaxRelocated))

\* one call of implant_units_from_dat with the arguments a on st
ImplantStep(st, a) ==
    CHOOSE n \in {[err |-> r.err, target |-> r.target,
                   heap |-> Collect(r.heap, source, r.target),
                   written |-> Append(st.written, r.written)] :
                      r \in {implant_units_from_dat(source, st.target, st.heap, a[1], a[2],
                                                    a[3], a[4], TRUE, a[5])}} : TRUE

\* the calls `calls` one after the other from call k on, until one raises;
\* st = [err, target, heap, written]
RECURSIVE ImplantSeq(_, _, _)
ImplantSeq(st, calls, k) ==
    IF k > Len(calls) \/ st.err # None THEN st
    ELSE CHOOSE res \in {ImplantSeq(n, calls, k + 1) : n \in {ImplantStep(st, calls[k])}} : TRUE

Reversed(s) == [k \in DOMAIN s |-> s[Len(s) + 1 - k]]

InitOrder ==
    \E n_civs \in 1 .. MaxCivs, v \in ProbeValues,
       n_units \in {BIG_START, BIG_START + MaxRelocated} :
        /\ source = SourceStore(n_units, n_units, n_civs, TECH_START + 1, EffectIdOf(TECH_START))
        /\ target = TargetStore(BIG_START + 2, MaxCivs, TECH_START + 1)
        /\ heap = InitialHeap(source, target, v)
        /\ last = [op |-> "init"]
        /\ ncalls = 0
        /\ pc = "order"
        /\ scenario = NoScenario

\* the calls are made in the order of `calls`
OrderRun(calls, op) ==
    \E st0 \in {[err |-> None, target |-> target, heap |-> heap, written |-> <<>>]} :
    \E run \in {ImplantSeq(st0, calls, 1)}, other \in {ImplantSeq(st0, Reversed(calls), 1)} :
        /\ target' = run.target
        /\ heap' = run.heap
        /\ last' = [op |-> op, calls |-> calls, err |-> run.err, written |-> run.written,
                    reversed |-> [err |-> other.err, target |-> other.target, heap |-> other.heap]]
        /\ ncalls' = ncalls + Len(run.written)
        /\ pc' = "ordered"
        /\ UNCHANGED <<source, scenario>>

\* two calls of implant_units_from_dat
OrderPair ==
    /\ pc = "order"
    /\ \E a \in OrderArgs, b \in OrderArgs : OrderRun(<<a, b>>, "pair")

\* the unit implants of run_dat_sync
OrderSync ==
    /\ pc = "order"
    /\ OrderRun(SyncImplantArgs(UnitCount(source)), "run_dat_sync")

NextOrder == OrderPair \/ OrderSync

SpecOrder == InitOrder /\ [][NextOrder]_vars

(***************************************************************************)
(* Properties of SpecOrder                                                 *)
(***************************************************************************)
\* the destination slots of the calls made are pairwise disjoint
DisjointFootprints(written) ==
    \A j \in DOMAIN written : \A k \in DOMAIN written : j # k => written[j] \cap written[k] = {}

\* C28: calls of implant_units_from_dat from the same source whose
\* destination ranges are disjoint give the same target whichever runs
\* first, and the slots the unit implants of run_dat_sync write are
\* together the set it hands to the checker, {46, 557} and
\* [2601 + UNIT_OFFSET, n + UNIT_OFFSET)
C28_DisjointImplantsCommute ==
    /\ (last.op \in {"pair", "run_dat_sync"} /\ last.err = None
        /\ DisjointFootprints(last.written)) =>
          /\ last.reversed.err = None
          /\ last.reversed.target = target
          /\ last.reversed.heap = heap
    /\ (last.op = "run_dat_sync" /\ last.err = None) =>
          /\ DisjointFootprints(last.written)
          /\ UNION Range(last.written) = SyncImplantedIndices(UnitCount(source))

\* the three implants of run_dat_sync have written 46, 557 and the
\* relocated slots, and the opposite order has given the same store
C28_Witness ==
    /\ last.op = "run_dat_sync"
    /\ last.err = None
    /\ Len(last.written) = 3
    /\ last.written[1] = RelocatedSlots(BIG_START + MaxRelocated)
    /\ last.written[2] = {OVERRIDE_A}
    /\ last.reversed.target = target
    /\ heap[target.civs[2].at[BIG_START + UNIT_OFFSET]].name = "mod civ 0"
    /\ heap[target.civs[1].at[OVERRIDE_B]].name = "mod civ 0"

\* two calls with overlapping destinations: the later call wins, so the
\* order matters
C28_WitnessOverlap ==
    /\ last.op = "pair"
    /\ last.err = None
    /\ ~DisjointFootprints(last.written)
    /\ last.reversed.heap # heap

(***************************************************************************)
(* Tech implants onto low target IDs: the offset target_tech_start -       *)
(* source_start is negative and larger than the effect ids of the range.   *)
(***************************************************************************)
LowTarget == TargetStore(BIG_START + 2, MaxCivs, TECH_START + 1)

LowTargetArgs ==
    LET n == TECH_START + MaxTechs
    IN {<<s, e, k, t>> :
           s \in {TECH_START, n - 1},
           e \in SourceEnds(TECH_START, n) \cup SourceEnds(n - 1, n),
           k \in CountArgs(MaxTechs),
           t \in {0, 2, TECH_START}}

InitLowTarget ==
    \E n_civs \in 0 .. MaxCivs, odd_effect \in OddEffects(TECH_START + MaxTechs) :
        /\ source = SourceStore(BIG_START + MaxRelocated, BIG_START + MaxRelocated, n_civs,
                                TECH_START + MaxTechs, odd_effect)
        /\ target = LowTarget
        /\ heap = InitialHeap(source, target, BIG_START + 1)
        /\ last = [op |-> "init"]
        /\ ncalls = 0
        /\ pc = "low_target"
        /\ scenario = NoScenario

LowTargetTechImplant ==
    /\ pc = "low_target"
    /\ \E a \in LowTargetArgs : DoTechImplant(a[1], a[2], a[3], a[4])
    /\ pc' = "returned"
    /\ UNCHANGED scenario

NextLowTarget == LowTargetTechImplant

SpecLowTarget == InitLowTarget /\ [][NextLowTarget]_vars

\* the techs of the requested range whose effect_id names no source effect
InvalidInRange ==
    LET rc == TechImplantCount(source.techs.len, last.source_start, last.source_end, last.count)
    IN IF rc.err # None THEN {}
       ELSE BadEffectIds(source, last.source_start, rc.implant_count)

\* a range holding a tech without a valid effect fails as a
\* whole, the target left as it was
FailsWholeRange ==
    (last.op = "implant_techs" /\ InvalidInRange # {}) =>
        /\ last.err # None
        /\ target = LowTarget

\* on success every effect destination e + offset is an
\* index of target.effects
DestinationsInRange ==
    (last.op = "implant_techs" /\ last.err = None) =>
        \A i \in 0 .. (last.ret - 1) :
            LET e == ItemAt(source.techs, last.source_start + i).effect_id
                offset == last.target_start - last.source_start
            IN 0 <= e + offset /\ e + offset < target.effects.len

\* C29: a tech implant over a range containing a tech whose effect_id is
\* negative or not below the number of source effects fails for the whole
\* range, nothing copied; when the implant succeeds, every effect destination
\* e + offset lies in [0, len(target.effects)).
C29_ValidEffectDestinations == FailsWholeRange /\ DestinationsInRange

\* a successful implant onto a low target ID: a copied tech's effect_id is
\* negative and its effect was stored counting from the end of the list
C29_Witness ==
    /\ last.op = "implant_techs" /\ last.err = None
    /\ \E i \in 0 .. (last.ret - 1) :
          LET e == ItemAt(source.techs, last.source_start + i).effect_id
              offset == last.target_start - last.source_start
          IN /\ e + offset < 0
             /\ ItemAt(target.techs, last.target_start + i).effect_id = e + offset
             /\ ItemAt(target.effects, target.effects.len + e + offset)
                   = ItemAt(source.effects, e)

\* a range with an invalid effect_id was requested and refused
C29_WitnessRefused ==
    /\ last.op = "implant_techs" /\ InvalidInRange # {}
    /\ last.err # None /\ target = LowTarget

(***************************************************************************)
(* The checker and the rewriter on the same records (SpecDrift: records    *)
(* with and without the reference fields)                                  *)
(***************************************************************************)
\* the sets of IDs tried as stale_ids and as the key set of the map
StaleIdSets ==
    { MigratedIds(BIG_START + MaxRelocated), {BIG_START + 1}, {FOREIGN, -1}, {} }
    \cup (IF last.op = "finalize" THEN {DOMAIN last.id_mapping} ELSE {})

\* a map whose key set is S
KeyMap(S) == [s \in S |-> s + UNIT_OFFSET]

\* the stale-reference issues the checker lists for the record in slot ui of civ c
StaleIssues(c, ui, S) ==
    SelectSeq(UnitIssues(target, heap, c, ui, S), LAMBDA i : i.field_path # "id")

\* the occupied (civ, slot) pairs of the target
TargetRecords ==
    {<<c, ui>> \in (0 .. (Len(target.civs) - 1)) \X UNION {DOMAIN target.civs[k].at : k \in DOMAIN target.civs} :
        Occupied(target.civs[c + 1], ui)}

\* issues and rewritten fields agree, record by record
SameReferenceFields ==
    \A rec \in TargetRecords, S \in StaleIdSets :
        LET u == heap[target.civs[rec[1] + 1].at[rec[2]]]
            r == _remap_unit_id_refs_in_unit(u, KeyMap(S))
            issues == StaleIssues(rec[1], rec[2], S)
        IN /\ Len(issues) = r.n
           /\ (Len(issues) > 0) <=> (r.unit # u)

\* the global rewrite has just run with a map whose image is disjoint from its keys
RewrittenApart ==
    /\ last.op = "finalize"
    /\ Range(last.id_mapping) \cap DOMAIN last.id_mapping = {}

\* C30: the checker and the rewriter cover the same reference fields: for every
\* record and every set S of IDs, the checker lists stale-reference issues with
\* stale_ids = S exactly when _remap_unit_id_refs_in_unit with a map of key set
\* S changes a field of the record, and as many issues as the rewriter counts
\* changes; directly after a global rewrite whose map image is disjoint from
\* its keys the checker reports no reference issue, whatever slots it is given.
C30_CheckerMatchesRewriter ==
    /\ SameReferenceFields
    /\ RewrittenApart =>
          \A slots \in {last.implanted_indices,
                        UNION {DOMAIN target.civs[k].at : k \in DOMAIN target.civs}} :
              \A i \in Range(check_unit_id_coherence(target, heap, slots,
                                                     DOMAIN last.id_mapping).issues) :
                  i.field_path = "id"

\* a global rewrite with keys apart from its image has rewritten references, a
\* target record lacks a reference field, and for some record and set the
\* checker lists several issues
C30_Witness ==
    /\ RewrittenApart
    /\ last.n_refs > 0
    /\ \E rec \in TargetRecords :
          "base_id" \notin DOMAIN heap[target.civs[rec[1] + 1].at[rec[2]]]
    /\ \E rec \in TargetRecords, S \in StaleIdSets : Len(StaleIssues(rec[1], rec[2], S)) > 1
====
